---------------------------- MODULE Spec2Model ----------------------------
(***************************************************************************)
(* Model of the customer-support agent: the query processor               *)
(* (src/query_processor.py), the session state and its context management *)
(* (src/agent_state.py), the long-term history store                      *)
(* (src/memory_manager.py), the stage graph (src/graph_builder.py) and    *)
(* the entry point that runs one turn through it (src/main.py).           *)
(*                                                                         *)
(* Python strings are TLA+ strings: Len, SubSeq and \o act on them        *)
(* character by character.  The two non-ASCII characters of the response  *)
(* templates (a right arrow and a bullet) are written ">" and "*"; no     *)
(* keyword, length test or comparison of the program depends on them.     *)
(***************************************************************************)
EXTENDS Integers, Sequences, FiniteSets, TLC

(***************************************************************************)
(* Python string primitives used by the program.  An operator that reads  *)
(* its argument at many positions first binds it (t \in {s}), so that the *)
(* argument is evaluated once.                                             *)
(***************************************************************************)
UpperLetters == "ABCDEFGHIJKLMNOPQRSTUVWXYZ"

LowerLetters == "abcdefghijklmnopqrstuvwxyz"

Digits == "0123456789"

Whitespace == {" ", "\n", "\t", "\r"}

CharAt(s, i) == SubSeq(s, i, i)

\* Python: k in s
Contains(s, k) ==
  \E t \in {s}, p \in {k} :
    \E i \in 1..(Len(t) - Len(p) + 1) : SubSeq(t, i, i + Len(p) - 1) = p

\* The characters of a string, as a set of one-character strings.
CharsOf(s) == {CharAt(s, i) : i \in 1..Len(s)}

UpperChars == CharsOf(UpperLetters)

LowerChars == CharsOf(LowerLetters)

WordChars == UpperChars \cup LowerChars \cup CharsOf(Digits) \cup {"_"}

IsUpperChar(c) == c \in UpperChars

IsLowerChar(c) == c \in LowerChars

IsWordChar(c) == c \in WordChars

LowerChar(c) ==
  IF IsUpperChar(c)
    THEN LET i == CHOOSE j \in 1..Len(UpperLetters) : CharAt(UpperLetters, j) = c
         IN  CharAt(LowerLetters, i)
    ELSE c

RECURSIVE LowerRange(_, _, _)
LowerRange(s, i, j) ==
  IF i > j THEN ""
  ELSE IF i = j THEN LowerChar(CharAt(s, i))
  ELSE CHOOSE r \in {LowerRange(s, i, m) \o LowerRange(s, m + 1, j) :
                       m \in {(i + j) \div 2}} : TRUE

\* Python: s.lower()
Lower(s) == CHOOSE r \in {LowerRange(t, 1, Len(t)) : t \in {s}} : TRUE

\* s without its leading and trailing whitespace, for a string s in hand.
StripBound(s) ==
  IF \A i \in 1..Len(s) : CharAt(s, i) \in Whitespace THEN ""
  ELSE LET first == CHOOSE i \in 1..Len(s) :
                      /\ CharAt(s, i) \notin Whitespace
                      /\ \A j \in 1..(i - 1) : CharAt(s, j) \in Whitespace
           last  == CHOOSE i \in 1..Len(s) :
                      /\ CharAt(s, i) \notin Whitespace
                      /\ \A j \in (i + 1)..Len(s) : CharAt(s, j) \in Whitespace
       IN  SubSeq(s, first, last)

\* Python: s.strip()
Strip(s) == CHOOSE r \in {StripBound(t) : t \in {s}} : TRUE

\* Python: s.count(c) for a one-character c
Count(s, c) ==
  CHOOSE n \in {Cardinality({i \in 1..Len(t) : CharAt(t, i) = c}) : t \in {s}} : TRUE

\* Python: s.isupper() - at least one cased character and no lower-case one
IsUpper(s) ==
  \E t \in {s} :
    /\ \E i \in 1..Len(t) : IsUpperChar(CharAt(t, i))
    /\ \A i \in 1..Len(t) : ~IsLowerChar(CharAt(t, i))

\* The maximal runs of the positions of s that in_run marks, as strings.
Runs(s, in_run) ==
  LET starts == {i \in 1..Len(s) : in_run[i] /\ (i = 1 \/ ~in_run[i - 1])}
      EndOf(i) == CHOOSE j \in i..Len(s) :
                    /\ \A k \in i..j : in_run[k]
                    /\ (j = Len(s) \/ ~in_run[j + 1])
  IN  {SubSeq(s, i, EndOf(i)) : i \in starts}

\* Python: set(s.split())
SplitWords(s) ==
  UNION {Runs(t, [i \in 1..Len(t) |-> CharAt(t, i) \notin Whitespace]) : t \in {s}}

\* Python: set(re.findall(r'\w+', s))
WordTokens(s) ==
  UNION {Runs(t, [i \in 1..Len(t) |-> IsWordChar(CharAt(t, i))]) : t \in {s}}

\* Python: any(k in s for k in keywords)
ContainsAny(s, keywords) ==
  \E t \in {s} : \E i \in 1..Len(keywords) : Contains(t, keywords[i])

(***************************************************************************)
(* MockLLMNode: the scripted answers for authentication queries, in the   *)
(* order of the dictionary.                                               *)
(***************************************************************************)
mock_responses ==
  << [question |-> "how do i reset my password",
      answer |-> "To reset your password:\n\n1. Visit our login page and click \"Forgot Password?\"\n2. Enter your registered email address\n3. Check your email for a password reset link (may take up to 5 minutes)\n4. Click the link and create a new secure password\n5. Your new password must contain at least 8 characters with uppercase, lowercase, and numbers\n\nIf you don't receive the email, check your spam folder or contact support for assistance."],
     [question |-> "i forgot my password can you help",
      answer |-> "I can definitely help you recover your password! Here's what to do:\n\n1. Go to the login page and select \"Forgot Password?\"\n2. Enter the email address associated with your account\n3. You'll receive a password reset email within 5 minutes\n4. Follow the secure link in the email to create a new password\n5. Make sure your new password is strong and unique\n\nIf you're having trouble receiving the email, please check your spam folder first."],
     [question |-> "my account is locked what should i do",
      answer |-> "If your account is locked, here are the steps to unlock it:\n\n1. Wait 15 minutes - temporary locks often resolve automatically\n2. Try the \"Forgot Password?\" option to reset your credentials\n3. Clear your browser cache and cookies, then try logging in again\n4. If still locked, it may be due to multiple failed login attempts\n\nFor immediate assistance, contact our support team at support@company.com with your username or email address."],
     [question |-> "how do i change my password",
      answer |-> "To change your password while logged in:\n\n1. Go to Account Settings > Security\n2. Click on \"Change Password\"\n3. Enter your current password\n4. Create a new secure password (8+ characters, mixed case, numbers)\n5. Confirm the new password\n6. Click \"Update Password\"\n\nYou'll receive a confirmation email once the change is successful. For security, you'll be logged out of all devices."],
     [question |-> "i can't log in to my account",
      answer |-> "Let's troubleshoot your login issue:\n\n1. **Check your credentials**: Ensure you're using the correct email/username and password\n2. **Try password reset**: Use \"Forgot Password?\" if you're unsure about your password\n3. **Clear browser data**: Clear cache, cookies, and try a different browser\n4. **Check account status**: Your account might be temporarily locked\n5. **Verify email**: Make sure you've verified your email address\n\nIf none of these work, please contact support with your username or registered email."],
     [question |-> "why am i getting invalid credentials error",
      answer |-> "The \"invalid credentials\" error usually means:\n\n1. **Incorrect password**: Try using \"Forgot Password?\" to reset it\n2. **Wrong email/username**: Double-check you're using the right login credentials\n3. **Account not verified**: Check if you need to verify your email address\n4. **Caps Lock**: Ensure Caps Lock isn't affecting your password\n5. **Browser issues**: Clear cache/cookies or try a different browser\n\nIf you're certain your credentials are correct, your account may be locked. Contact support for assistance."],
     [question |-> "how do i enable two-factor authentication",
      answer |-> "To enable two-factor authentication (2FA):\n\n1. Go to Account Settings > Security\n2. Find \"Two-Factor Authentication\" section\n3. Click \"Enable 2FA\"\n4. Download an authenticator app (Google Authenticator, Authy, etc.)\n5. Scan the QR code with your authenticator app\n6. Enter the 6-digit code from your app to verify\n7. Save your backup codes in a secure location\n\n2FA adds an extra layer of security to protect your account from unauthorized access."],
     [question |-> "i lost my 2fa device how do i access my account",
      answer |-> "If you lost your 2FA device, here's how to regain access:\n\n1. **Use backup codes**: If you saved backup codes during 2FA setup, use one of those\n2. **Account recovery**: Contact our support team with verification details:\n   - Your full name and email address\n   - Last known password\n   - Recent account activity details\n3. **Alternative verification**: We may ask for additional identity verification\n4. **Device replacement**: Once verified, we'll help you set up 2FA on a new device\n\nFor security reasons, this process may take 24-48 hours to complete."],
     [question |-> "can i use my email instead of username to login",
      answer |-> "Yes! You can log in using either:\n\n1. **Email address**: Enter your full email address in the username field\n2. **Username**: Use your chosen username if you prefer\n\nBoth methods work with the same password. If you're having trouble:\n- Make sure you're using the correct email format (user@domain.com)\n- Try both your email and username to see which one works\n- Use \"Forgot Password?\" if you're unsure about your password\n\nThe system accepts both login methods for your convenience."],
     [question |-> "my session keeps timing out why",
      answer |-> "Session timeouts can occur for several reasons:\n\n1. **Inactivity**: Sessions automatically expire after 30 minutes of inactivity for security\n2. **Browser settings**: Check if your browser is set to clear cookies/data\n3. **Network issues**: Unstable connections can cause session interruptions\n4. **Multiple devices**: Logging in from another device may end your current session\n5. **Security settings**: Enhanced security settings may reduce session duration\n\nTo minimize timeouts:\n- Stay active in your account\n- Check \"Remember me\" if available\n- Ensure stable internet connection\n- Contact support if timeouts are unusually frequent"] >>

DefaultAuthResponse ==
  "I understand you're having an account or authentication issue. Here are some general steps that might help:\n\n1. Try resetting your password using \"Forgot Password?\"\n2. Clear your browser cache and cookies\n3. Check your email for any account notifications\n4. Contact our support team if the issue persists\n\nIs there a specific authentication problem you're experiencing?"

\* overlap / min_length > 0.5, and 0 when min_length is 0
is_similar_query(query, reference) ==
  \E query_words \in {SplitWords(query)},
     reference_words \in {SplitWords(reference)} :
    LET overlap    == Cardinality(query_words \cap reference_words)
        min_length == IF Cardinality(query_words) < Cardinality(reference_words)
                        THEN Cardinality(query_words)
                        ELSE Cardinality(reference_words)
    IN  min_length > 0 /\ 2 * overlap > min_length

\* get_response without its direct lookup: the first similar question wins.
get_response_FuzzyOnly(query) ==
  LET query_lower == Strip(Lower(query))
      similar == {i \in 1..Len(mock_responses) :
                    is_similar_query(query_lower, mock_responses[i].question)}
  IN  IF similar # {}
        THEN mock_responses[CHOOSE i \in similar : \A j \in similar : i <= j].answer
        ELSE DefaultAuthResponse

get_response(query) ==
  LET First(S) == CHOOSE i \in S : \A j \in S : i <= j
      Answer(query_lower) ==
        LET direct  == {i \in 1..Len(mock_responses) :
                          mock_responses[i].question = query_lower}
            similar == {i \in 1..Len(mock_responses) :
                          is_similar_query(query_lower,
                                           mock_responses[i].question)}
        IN  IF direct # {} THEN mock_responses[First(direct)].answer
            ELSE IF similar # {} THEN mock_responses[First(similar)].answer
            ELSE DefaultAuthResponse
  IN  CHOOSE answer \in {Answer(q) : q \in {Strip(Lower(query))}} : TRUE

(***************************************************************************)
(* QueryProcessor.  A confidence is an integer number of 300ths, so that  *)
(* score / 3.0, 0.3 and 0.95 are all exact: 1.0 is 300.                   *)
(***************************************************************************)
knowledge_base ==
  << [name |-> "password_reset",
      keywords |-> << "password", "reset", "forgot", "login", "access" >>,
      response |-> "To reset your password:\n\n1. Go to the login page at https://login.techtrendinnovations.com\n2. Click on \"Forgot Password?\" link\n3. Enter your registered email address\n4. Check your email for the password reset link\n5. Click the link and create a new password\n6. Your new password must be at least 8 characters with uppercase, lowercase, and numbers\n\nThe reset link expires in 24 hours. If you don't receive the email, please check your spam folder.",
      category |-> "account"],
     [name |-> "billing",
      keywords |-> << "billing", "payment", "invoice", "charge", "subscription", "cost" >>,
      response |-> "For billing-related inquiries:\n\n* View billing details: Account Settings > Billing & Payments\n* Download invoices: Billing section > Invoice History\n* Update payment method: Settings > Payment Methods\n* View subscription plans: Account > Subscription\n\nIf you notice any incorrect charges, please provide the transaction ID and date for immediate assistance.",
      category |-> "billing"],
     [name |-> "features",
      keywords |-> << "feature", "how to", "tutorial", "guide", "use" >>,
      response |-> "I can help you with our features! Here are some quick guides:\n\n* Getting Started Guide: https://docs.techtrendinnovations.com/getting-started\n* Feature Tutorials: https://docs.techtrendinnovations.com/features\n* Video Walkthroughs: https://learn.techtrendinnovations.com\n* API Documentation: https://api.techtrendinnovations.com/docs\n\nWhich specific feature would you like to learn about?",
      category |-> "support"],
     [name |-> "account",
      keywords |-> << "account", "profile", "settings", "preferences" >>,
      response |-> "For account management:\n\n* Edit Profile: Settings > Profile Information\n* Security Settings: Settings > Security & Privacy\n* Notification Preferences: Settings > Notifications\n* Data Export: Settings > Privacy > Export Data\n* Account Deletion: Settings > Privacy > Delete Account\n\nWhat specific account setting would you like to modify?",
      category |-> "account"],
     [name |-> "technical_issue",
      keywords |-> << "error", "bug", "not working", "crash", "issue", "problem" >>,
      response |-> "I'll help you resolve this technical issue. Please provide:\n\n1. Error message (if any)\n2. What you were trying to do\n3. Browser/device information\n4. When the issue started\n\nIn the meantime, try these quick fixes:\n* Clear browser cache and cookies\n* Try a different browser\n* Disable browser extensions\n* Check your internet connection",
      category |-> "technical"] >>

complex_indicators ==
  << "refund", "legal", "escalate", "manager", "complaint", "lawsuit", "security breach", "data leak", "unauthorized access", "fraud", "billing dispute", "cancel subscription" >>

auth_keywords ==
  << "password", "login", "log in", "sign in", "access", "account",
     "credentials", "locked", "reset", "forgot", "change",
     "2fa", "two-factor", "authentication", "authenticator",
     "session", "timeout", "email", "username", "invalid" >>

common_words ==
  {"the", "a", "an", "is", "how", "what", "when", "where", "can", "my", "i"}

EscalationResponse ==
  "I understand this is an important matter that requires specialized attention. I'm escalating your query to our human support team who will review it and respond within 2 business hours. You'll receive a notification once they've reviewed your case."

GenericPrefix ==
  "Thank you for your question about \""

GenericSuffix ==
  "\". \n\nI'd be happy to help you with this. Could you please provide more details about:\n* What you're trying to accomplish\n* Any error messages you're seeing\n* When this issue started\n\nThis will help me provide you with the most accurate assistance."


HistoryNotePrefix == "I see you previously asked about similar topics. "

HistoryNoteSuffix ==
  "\n\nBased on your history, I can also help with any follow-up questions."

ConfidenceFull == 3 * 100

ConfidenceAuth == 3 * 95

ConfidenceThreshold == 3 * 30

KeywordScore(query_lower, keywords) ==
  Cardinality({k \in 1..Len(keywords) : Contains(query_lower, keywords[k])})

RECURSIVE BestMatch(_, _, _)
BestMatch(query_lower, i, best) ==
  IF i > Len(knowledge_base) THEN best
  ELSE CHOOSE found \in
         { BestMatch(q, i + 1,
                     IF score > b.score
                       THEN [category |-> knowledge_base[i].name, score |-> score]
                       ELSE b)
           : <<q, b, score>> \in
               {<<query_lower, best,
                  KeywordScore(query_lower, knowledge_base[i].keywords)>>} } :
         TRUE

\* analyze_query without the cap of the confidence at 1.0.
analyze_query_Uncapped(query) ==
  CHOOSE analysis \in
    { IF best.score > 0
        THEN [category |-> best.category, confidence |-> 100 * best.score]
        ELSE [category |-> "general", confidence |-> 0]
      : best \in {BestMatch(Lower(query), 1,
                            [category |-> "general", score |-> 0])} } :
    TRUE

analyze_query(query) ==
  CHOOSE analysis \in
    { IF best.score > 0
        THEN [category   |-> best.category,
              confidence |-> IF 100 * best.score < ConfidenceFull
                               THEN 100 * best.score ELSE ConfidenceFull]
        ELSE [category |-> "general", confidence |-> 0]
      : best \in {BestMatch(Lower(query), 1,
                            [category |-> "general", score |-> 0])} } :
    TRUE

\* is_complex_query matching the indicators against the query as typed.
is_complex_query_CaseSensitive(query) ==
  \/ ContainsAny(query, complex_indicators)
  \/ Count(query, "?") > 2
  \/ (IsUpper(query) /\ Len(query) > 20)

\* is_complex_query taking two question marks for frustration.
is_complex_query_TwoMarks(query) ==
  \/ ContainsAny(Lower(query), complex_indicators)
  \/ Count(query, "?") >= 2
  \/ (IsUpper(query) /\ Len(query) > 20)

is_complex_query(query) ==
  \/ ContainsAny(Lower(query), complex_indicators)
  \/ Count(query, "?") > 2
  \/ (IsUpper(query) /\ Len(query) > 20)

is_authentication_query(query) == ContainsAny(Lower(query), auth_keywords)

are_queries_related(query1, query2) ==
  \E words1 \in {WordTokens(Lower(query1)) \ common_words},
     words2 \in {WordTokens(Lower(query2)) \ common_words} :
    Cardinality(words1 \cap words2) >= 2

KnowledgeBaseEntry(category) ==
  {i \in 1..Len(knowledge_base) : knowledge_base[i].name = category}

generate_personalized_response(query, category, confidence, user_history) ==
  LET base_response ==
        IF KnowledgeBaseEntry(category) # {} /\ confidence > ConfidenceThreshold
          THEN knowledge_base[CHOOSE i \in KnowledgeBaseEntry(category) : TRUE].response
          ELSE GenericPrefix \o query \o GenericSuffix
      n == Len(user_history)
      recent == {i \in 1..n : i > n - 3}
  IN  IF \E i \in recent : are_queries_related(query, user_history[i].query)
        THEN HistoryNotePrefix \o base_response \o HistoryNoteSuffix
        ELSE base_response

\* generate_response trying the authentication answers before escalation.
generate_response_AuthFirst(query, user_history) ==
  LET analysis == analyze_query(query)
  IN  IF is_authentication_query(query)
        THEN [response      |-> get_response(query),
              requires_hitl |-> FALSE,
              category      |-> "authentication",
              confidence    |-> ConfidenceAuth,
              source        |-> "mock_llm"]
      ELSE IF is_complex_query(query)
        THEN [response      |-> EscalationResponse,
              requires_hitl |-> TRUE,
              category      |-> "escalation",
              confidence    |-> ConfidenceFull]
      ELSE [response      |-> generate_personalized_response(
                                query, analysis.category, analysis.confidence,
                                user_history),
            requires_hitl |-> FALSE,
            category      |-> analysis.category,
            confidence    |-> analysis.confidence]

generate_response(query, user_history) ==
  CHOOSE response_data \in
    { IF is_complex_query(query)
        THEN [response      |-> EscalationResponse,
              requires_hitl |-> TRUE,
              category      |-> "escalation",
              confidence    |-> ConfidenceFull]
      ELSE IF is_authentication_query(query)
        THEN [response      |-> get_response(query),
              requires_hitl |-> FALSE,
              category      |-> "authentication",
              confidence    |-> ConfidenceAuth,
              source        |-> "mock_llm"]
      ELSE [response      |-> generate_personalized_response(
                                query, analysis.category, analysis.confidence,
                                user_history),
            requires_hitl |-> FALSE,
            category      |-> analysis.category,
            confidence    |-> analysis.confidence]
      : analysis \in {analyze_query(query)} } :
    TRUE

(***************************************************************************)
(* Bounds and inputs of the model.                                        *)
(***************************************************************************)
MaxTurns == 2

\* The empty and the blank identifier are inputs the entry points accept.
UserIds == {"", " ", "u1", "u2"}

ThreadIds == {"t1"}

Queries ==
  { "",
    "how do i reset my password",
    "HOW DO I RESET MY PASSWORD???",
    "I want a REFUND for my password reset",
    "what about that invoice payment",
    "why??" }

\* The concurrent callers of the store and what they append.
Callers == {"c1", "c2"}

CallerUserIds == {" ", "u1", "u2"}

CallerQueries == {"what about that invoice payment", "why??"}

\* The queries and histories generate_response is called with.
SampleQueries ==
  Queries \cup
  { "HOW DO I RESET MY PASSWORD",
    "what is my invoice payment charge",
    "WHY???",
    "HELP ME NOW",
    "the app crash bug",
    "  How do I change my password ",
    "authenticator",
    "login",
    "my email changed",
    "1234567890 1234567890 12",
    "is there a tutorial",
    "Invoice payment",
    "please reset forgot password quickly",
    "I WANT A REFUND",
    "billing error",
    "password bug crash",
    "invoice payment charge cost",
    "how do i change my password now" }

SampleHistoryQueries ==
  { << >>,
    << "what is my invoice payment charge" >>,
    << "why??", "Invoice payment", "the app crash bug", "login" >> }

(***************************************************************************)
(* State of the model.                                                     *)
(***************************************************************************)
VARIABLES
  store,      \* the files of the MemoryManager: user_id -> file content
  clock,      \* datetime.now(): the number of the turn being processed
  pc,         \* "idle", the node the graph runs next, or a terminal state
  state,      \* the AgentState threaded through the nodes
  executed,   \* the nodes run so far in the current invocation
  result,     \* what process_message returned for the last turn
  ops,        \* the store operations of concurrent callers, each at its step
  call,       \* a call made on one component directly, and its result
  hitl_queue  \* the review queue of the chat session: items with a status

vars == <<store, clock, pc, state, executed, result, ops, call, hitl_queue>>

(***************************************************************************)
(* MemoryManager.  A file is absent or holds the dictionary that          *)
(* save_long_term_memory dumped.  An I/O error is an input of the          *)
(* operation: a failed read yields the default dictionary, a failed write  *)
(* leaves the file as it was.                                              *)
(***************************************************************************)
NoFile == [exists |-> FALSE]

NoMetadata == << >>

DefaultData(user_id) ==
  [user_id |-> user_id, user_history |-> << >>, metadata |-> NoMetadata,
   last_updated |-> 0]

save_long_term_memory(files, user_id, user_history, metadata, now, write_ok) ==
  IF write_ok
    THEN [files |-> [files EXCEPT ![user_id] =
                       [exists       |-> TRUE,
                        user_id      |-> user_id,
                        user_history |-> user_history,
                        metadata     |-> metadata,
                        last_updated |-> now]],
          ok    |-> TRUE]
    ELSE [files |-> files, ok |-> FALSE]

load_long_term_memory(files, user_id, read_ok) ==
  IF ~files[user_id].exists THEN DefaultData(user_id)
  ELSE IF read_ok
    THEN [user_id      |-> files[user_id].user_id,
          user_history |-> files[user_id].user_history,
          metadata     |-> files[user_id].metadata,
          last_updated |-> files[user_id].last_updated]
    ELSE DefaultData(user_id)

NewEntry(query, resolution, now, metadata) ==
  [query |-> query, resolution |-> resolution, timestamp |-> now,
   metadata |-> metadata]

\* append_to_history up to its read of the file: the validation of the
\* arguments and the load.
append_load(files, user_id, read_ok) ==
  IF Strip(user_id) = ""
    THEN [valid |-> FALSE]
    ELSE [valid |-> TRUE,
          data  |-> load_long_term_memory(files, user_id, read_ok)]

\* append_save putting the new entry in front of the history that was read.
append_save_Prepends(files, user_id, data, query, resolution, metadata, now, write_ok) ==
  LET history == <<NewEntry(query, resolution, now, metadata)>> \o
                 data.user_history
  IN  save_long_term_memory(files, user_id, history, data.metadata, now,
                            write_ok)

\* append_to_history from there on: the new entry joins the history that
\* was read, and the whole history is written back.
append_save(files, user_id, data, query, resolution, metadata, now, write_ok) ==
  LET history == Append(data.user_history,
                        NewEntry(query, resolution, now, metadata))
  IN  save_long_term_memory(files, user_id, history, data.metadata, now,
                            write_ok)

append_to_history(files, user_id, query, resolution, metadata, now, read_ok, write_ok) ==
  LET loaded == append_load(files, user_id, read_ok)
  IN  IF ~loaded.valid
        THEN [files |-> files, ok |-> FALSE]
        ELSE append_save(files, user_id, loaded.data, query, resolution,
                         metadata, now, write_ok)

\* clear_user_history removing the files of all users.
clear_user_history_AllUsers(files, user_id, unlink_ok) ==
  IF ~files[user_id].exists THEN [files |-> files, ok |-> TRUE]
  ELSE IF unlink_ok
    THEN [files |-> [u \in DOMAIN files |-> NoFile], ok |-> TRUE]
    ELSE [files |-> files, ok |-> FALSE]

\* Removing the file fails on an I/O error and leaves it as it was.
clear_user_history(files, user_id, unlink_ok) ==
  IF ~files[user_id].exists THEN [files |-> files, ok |-> TRUE]
  ELSE IF unlink_ok
    THEN [files |-> [files EXCEPT ![user_id] = NoFile], ok |-> TRUE]
    ELSE [files |-> files, ok |-> FALSE]

(***************************************************************************)
(* AgentState and its context management.  A message is a record with a   *)
(* type ("human", "ai", "system") and a content; metadata is a function    *)
(* from the keys present to their values.                                  *)
(***************************************************************************)
Get(d, key, default) == IF key \in DOMAIN d THEN d[key] ELSE default

Put(d, key, value) == (key :> value) @@ d

HumanMessage(content) == [type |-> "human", content |-> content]

AIMessage(content, category, confidence, now) ==
  [type |-> "ai", content |-> content, category |-> category,
   confidence |-> confidence, timestamp |-> now]

\* hitl_approved is None until a reviewer decides
NotApproved == "None"

\* StateValidator.validate_state: TRUE where the code returns True, FALSE
\* where it raises ValueError.  Identifiers, contents and entry fields are
\* strings in every state of the model, so the type tests always pass.
validate_state(st) ==
  /\ st.user_id # ""
  /\ st.thread_id # ""
  /\ \A i \in 1..Len(st.messages) :
       st.messages[i].type \in {"human", "ai", "system"}
  /\ \A i \in 1..Len(st.user_history) :
       {"query", "resolution", "timestamp"} \subseteq DOMAIN st.user_history[i]

create_initial_state(user_id, thread_id, now) ==
  [messages      |-> << >>,
   user_history  |-> << >>,
   user_id       |-> user_id,
   thread_id     |-> thread_id,
   metadata      |-> ("created_at" :> now) @@ ("session_count" :> 1),
   requires_hitl |-> FALSE,
   hitl_approved |-> NotApproved]

add_user_history_entry(st, query, resolution, metadata, now) ==
  [st EXCEPT !.user_history =
     Append(@, NewEntry(query, resolution, now, metadata))]

\* Python: seq[start:] for any integer start
SliceFrom(seq, start) ==
  LET n     == Len(seq)
      begin == IF start < 0 THEN (IF n + start < 0 THEN 0 ELSE n + start)
               ELSE (IF start > n THEN n ELSE start)
  IN  SubSeq(seq, begin + 1, n)

IsSystem(msg) == msg.type = "system"

NotSystem(msg) == ~IsSystem(msg)

\* trim_messages keeping the last max_messages whatever their type.
trim_messages_LastOnly(st, max_messages, preserve_system) ==
  IF Len(st.messages) <= max_messages THEN st
  ELSE LET messages == st.messages
           kept     == SliceFrom(messages, -max_messages)
       IN  [st EXCEPT
              !.messages = kept,
              !.metadata = Put(Put(@, "messages_trimmed",
                                   Len(messages) - Len(kept)),
                               "total_messages_before_trim", Len(messages))]

\* trim_messages without its early return for a log that already fits.
trim_messages_NoEarlyReturn(st, max_messages, preserve_system) ==
  LET messages == st.messages
      system_messages     == SelectSeq(messages, IsSystem)
      non_system_messages == SelectSeq(messages, NotSystem)
      kept == IF preserve_system
                THEN system_messages \o
                     SliceFrom(non_system_messages,
                               -(max_messages - Len(system_messages)))
                ELSE SliceFrom(messages, -max_messages)
  IN  [st EXCEPT
         !.messages = kept,
         !.metadata = Put(Put(@, "messages_trimmed",
                              Len(messages) - Len(kept)),
                          "total_messages_before_trim", Len(messages))]

trim_messages(st, max_messages, preserve_system) ==
  IF Len(st.messages) <= max_messages THEN st
  ELSE LET messages == st.messages
           system_messages     == SelectSeq(messages, IsSystem)
           non_system_messages == SelectSeq(messages, NotSystem)
           kept == IF preserve_system
                     THEN system_messages \o
                          SliceFrom(non_system_messages,
                                    -(max_messages - Len(system_messages)))
                     ELSE SliceFrom(messages, -max_messages)
       IN  [st EXCEPT
              !.messages = kept,
              !.metadata = Put(Put(@, "messages_trimmed",
                                   Len(messages) - Len(kept)),
                               "total_messages_before_trim", Len(messages))]

DefaultFilterConfig ==
  [filter_greetings      |-> TRUE,
   filter_short_messages |-> TRUE,
   min_message_length    |-> 10,
   filter_repetitive     |-> TRUE,
   filter_non_actionable |-> TRUE,
   preserve_important    |-> TRUE]

greeting_keywords ==
  << "hello", "hi", "hey", "greetings", "good morning", "good afternoon",
     "good evening" >>

farewell_keywords ==
  << "bye", "goodbye", "see you", "talk to you later", "ttyl", "farewell" >>

non_actionable_keywords ==
  {"ok", "okay", "thanks", "thank you", "got it", "understood", "sure",
   "alright"}

important_keywords ==
  << "password", "reset", "account", "billing", "refund", "error", "problem",
     "issue", "help", "support" >>

MessageContent(msg) == Strip(Lower(msg.content))

\* FilterKeeps with the length rule ahead of the important keywords.
FilterKeeps_ShortFirst(msg, accepted, exclude_roles, filter_config) ==
  \E content \in {MessageContent(msg)}, recent \in {SliceFrom(accepted, -3)} :
      IF      msg.type \in exclude_roles THEN FALSE
      ELSE IF /\ filter_config.filter_short_messages
              /\ Len(content) < filter_config.min_message_length
        THEN FALSE
      ELSE IF \/ IsSystem(msg)
              \/ (filter_config.preserve_important
                    /\ ContainsAny(content, important_keywords))
        THEN TRUE
      ELSE IF /\ filter_config.filter_greetings
              /\ ContainsAny(content, greeting_keywords \o farewell_keywords)
        THEN FALSE
      ELSE IF /\ filter_config.filter_non_actionable
              /\ content \in non_actionable_keywords
        THEN FALSE
      ELSE IF /\ filter_config.filter_repetitive
              /\ \E i \in 1..Len(recent) : MessageContent(recent[i]) = content
        THEN FALSE
      ELSE TRUE

\* FilterKeeps with the important keywords ahead of the excluded roles.
FilterKeeps_ImportantBeforeExclude(msg, accepted, exclude_roles, filter_config) ==
  \E content \in {MessageContent(msg)}, recent \in {SliceFrom(accepted, -3)} :
      IF      \/ IsSystem(msg)
              \/ (filter_config.preserve_important
                    /\ ContainsAny(content, important_keywords))
        THEN TRUE
      ELSE IF msg.type \in exclude_roles THEN FALSE
      ELSE IF /\ filter_config.filter_short_messages
              /\ Len(content) < filter_config.min_message_length
        THEN FALSE
      ELSE IF /\ filter_config.filter_greetings
              /\ ContainsAny(content, greeting_keywords \o farewell_keywords)
        THEN FALSE
      ELSE IF /\ filter_config.filter_non_actionable
              /\ content \in non_actionable_keywords
        THEN FALSE
      ELSE IF /\ filter_config.filter_repetitive
              /\ \E i \in 1..Len(recent) : MessageContent(recent[i]) = content
        THEN FALSE
      ELSE TRUE

\* FilterKeeps comparing with the last 2 accepted messages only.
FilterKeeps_WindowOfTwo(msg, accepted, exclude_roles, filter_config) ==
  \E content \in {MessageContent(msg)}, recent \in {SliceFrom(accepted, -2)} :
      IF      msg.type \in exclude_roles THEN FALSE
      ELSE IF \/ IsSystem(msg)
              \/ (filter_config.preserve_important
                    /\ ContainsAny(content, important_keywords))
        THEN TRUE
      ELSE IF /\ filter_config.filter_short_messages
              /\ Len(content) < filter_config.min_message_length
        THEN FALSE
      ELSE IF /\ filter_config.filter_greetings
              /\ ContainsAny(content, greeting_keywords \o farewell_keywords)
        THEN FALSE
      ELSE IF /\ filter_config.filter_non_actionable
              /\ content \in non_actionable_keywords
        THEN FALSE
      ELSE IF /\ filter_config.filter_repetitive
              /\ \E i \in 1..Len(recent) : MessageContent(recent[i]) = content
        THEN FALSE
      ELSE TRUE

\* The decision of one iteration of the loop of filter_messages.
FilterKeeps(msg, accepted, exclude_roles, filter_config) ==
  \E content \in {MessageContent(msg)}, recent \in {SliceFrom(accepted, -3)} :
      IF msg.type \in exclude_roles THEN FALSE
      ELSE IF \/ IsSystem(msg)
              \/ (filter_config.preserve_important
                    /\ ContainsAny(content, important_keywords))
        THEN TRUE
      ELSE IF /\ filter_config.filter_short_messages
              /\ Len(content) < filter_config.min_message_length
        THEN FALSE
      ELSE IF /\ filter_config.filter_greetings
              /\ ContainsAny(content, greeting_keywords \o farewell_keywords)
        THEN FALSE
      ELSE IF /\ filter_config.filter_non_actionable
              /\ content \in non_actionable_keywords
        THEN FALSE
      ELSE IF /\ filter_config.filter_repetitive
              /\ \E i \in 1..Len(recent) : MessageContent(recent[i]) = content
        THEN FALSE
      ELSE TRUE

RECURSIVE FilterLoop(_, _, _, _, _)
FilterLoop(messages, i, accepted, exclude_roles, filter_config) ==
  IF i > Len(messages) THEN accepted
  ELSE CHOOSE filtered \in
         { FilterLoop(messages, i + 1, kept, exclude_roles, filter_config)
           : kept \in {IF FilterKeeps(messages[i], accepted, exclude_roles,
                                      filter_config)
                         THEN Append(accepted, messages[i]) ELSE accepted} } :
         TRUE

\* filter_messages adding to the count of an earlier pass.
filter_messages_AddsToCount(st, exclude_roles, filter_config) ==
  LET original_count == Len(st.messages)
  IN  CHOOSE filtered \in
        { [st EXCEPT
             !.messages = filtered_messages,
             !.metadata =
               Put(Put(Put(@, "messages_filtered",
                           Get(@, "messages_filtered", 0)
                             + original_count - Len(filtered_messages)),
                       "total_messages_before_filter", original_count),
                   "filter_config_used", filter_config)]
          : filtered_messages \in {FilterLoop(st.messages, 1, << >>,
                                              exclude_roles, filter_config)} } :
        TRUE

filter_messages(st, exclude_roles, filter_config) ==
  LET original_count == Len(st.messages)
  IN  CHOOSE filtered \in
        { [st EXCEPT
             !.messages = filtered_messages,
             !.metadata =
               Put(Put(Put(@, "messages_filtered",
                           original_count - Len(filtered_messages)),
                       "total_messages_before_filter", original_count),
                   "filter_config_used", filter_config)]
          : filtered_messages \in {FilterLoop(st.messages, 1, << >>,
                                              exclude_roles, filter_config)} } :
        TRUE

(***************************************************************************)
(* AgentGraphBuilder: the nodes of the graph and its edges.               *)
(***************************************************************************)
\* fetch_history_node loading the history whatever the user_id.
fetch_history_node_AlwaysLoads(st, files, read_ok) ==
  LET history == load_long_term_memory(files, st.user_id, read_ok).user_history
  IN  [st EXCEPT
         !.user_history = history,
         !.metadata = Put(Put(@, "history_loaded", TRUE),
                          "history_count", Len(history))]

fetch_history_node(st, files, read_ok) ==
  IF st.user_id # ""
    THEN LET history == load_long_term_memory(files, st.user_id, read_ok).user_history
         IN  [st EXCEPT
                !.user_history = history,
                !.metadata = Put(Put(@, "history_loaded", TRUE),
                                 "history_count", Len(history))]
    ELSE st

process_query_node(st) ==
  IF st.messages = << >> THEN st
  ELSE LET latest_message == st.messages[Len(st.messages)]
       IN  IF latest_message.type = "human"
             THEN [st EXCEPT !.metadata =
                     Put(@, "current_query", latest_message.content)]
             ELSE st

\* generate_response_node answering also when there is no query.
generate_response_node_AnswersEmpty(st, now) ==
  LET query == Get(st.metadata, "current_query", "")
  IN  CHOOSE updated \in
        { [st EXCEPT
             !.messages = Append(@, AIMessage(res.response, res.category,
                                              res.confidence, now)),
             !.requires_hitl = res.requires_hitl,
             !.metadata = Put(@, "response_category", res.category)]
          : res \in {generate_response(query, st.user_history)} } :
        TRUE

generate_response_node(st, now) ==
  LET query == Get(st.metadata, "current_query", "")
  IN  IF query = "" THEN st
      ELSE CHOOSE updated \in
             { [st EXCEPT
                  !.messages = Append(@, AIMessage(res.response, res.category,
                                                   res.confidence, now)),
                  !.requires_hitl = res.requires_hitl,
                  !.metadata = Put(@, "response_category", res.category)]
               : res \in {generate_response(query, st.user_history)} } :
             TRUE

\* check_hitl_node taking the flag back once it has recorded the request.
check_hitl_node_ClearsFlag(st) ==
  IF st.requires_hitl
    THEN [st EXCEPT
            !.requires_hitl = FALSE,
            !.metadata =
              Put(Put(@, "hitl_requested", TRUE),
                  "hitl_reason", "Complex query requiring human review")]
    ELSE st

check_hitl_node(st) ==
  IF st.requires_hitl
    THEN [st EXCEPT !.metadata =
            Put(Put(@, "hitl_requested", TRUE),
                "hitl_reason", "Complex query requiring human review")]
    ELSE st

\* The content of the most recent "ai" message, or default when there is none.
LastAIContent(messages, default) ==
  LET ai == {i \in 1..Len(messages) : messages[i].type = "ai"}
  IN  IF ai = {} THEN default
      ELSE messages[CHOOSE i \in ai : \A j \in ai : j <= i].content

save_interaction_node(st, files, now, read_ok, write_ok) ==
  LET user_id == st.user_id
      query   == Get(st.metadata, "current_query", "")
  IN  IF user_id = "" \/ query = ""
        THEN [state |-> st, files |-> files]
        ELSE LET response == LastAIContent(st.messages, "")
                 metadata == [category  |-> Get(st.metadata, "response_category", "None"),
                              thread_id |-> st.thread_id]
                 saved    == append_to_history(files, user_id, query, response,
                                               metadata, now, read_ok, write_ok)
             IN  [state |-> add_user_history_entry(st, query, response,
                                                   metadata, now),
                  files |-> saved.files]

trim_state_node(st) ==
  CHOOSE filtered \in
    { filter_messages(trimmed, {}, DefaultFilterConfig)
      : trimmed \in {trim_messages(st, 5, TRUE)} } :
    TRUE

\* The keys of the state that a node assigns to when it runs on st.
StageWrites(node, st) ==
  LET query == Get(st.metadata, "current_query", "")
  IN  CASE node = "fetch_history" ->
             IF st.user_id # "" THEN {"user_history", "metadata"} ELSE {}
        [] node = "process_query" ->
             IF st.messages # << >> /\ st.messages[Len(st.messages)].type = "human"
               THEN {"metadata"} ELSE {}
        [] node = "generate_response" ->
             IF query # "" THEN {"messages", "requires_hitl", "metadata"}
             ELSE {}
        [] node = "check_hitl" ->
             IF st.requires_hitl THEN {"metadata"} ELSE {}
        [] node = "save_interaction" ->
             IF st.user_id # "" /\ query # "" THEN {"user_history"} ELSE {}
        [] node = "trim_state" -> {"messages", "metadata"}

\* route_hitl sending every turn on to persistence.
route_hitl_IgnoresFlag(st) == "save"

route_hitl(st) == IF st.requires_hitl THEN "escalate" ELSE "save"

\* The edges of build_graph.  END is named by the way it is reached:
\* "ESCALATED" from check_hitl, "DONE" from trim_state.
EntryPoint == "fetch_history"

\* The edges with generate_response wired straight to save_interaction.
Successor_SkipsCheck(node, st) ==
  CASE node = "fetch_history"     -> "process_query"
    [] node = "process_query"     -> "generate_response"
    [] node = "generate_response" -> "save_interaction"
    [] node = "check_hitl"        -> IF route_hitl(st) = "escalate"
                                       THEN "ESCALATED"
                                       ELSE "save_interaction"
    [] node = "save_interaction"  -> "trim_state"
    [] node = "trim_state"        -> "DONE"

\* The edges with "escalate" mapped to trim_state instead of END.
Successor_TrimsAfterEscalation(node, st) ==
  CASE node = "fetch_history"     -> "process_query"
    [] node = "process_query"     -> "generate_response"
    [] node = "generate_response" -> "check_hitl"
    [] node = "check_hitl"        -> IF route_hitl(st) = "escalate"
                                       THEN "trim_state"
                                       ELSE "save_interaction"
    [] node = "save_interaction"  -> "trim_state"
    [] node = "trim_state"        -> "DONE"

\* The edges with "escalate" mapped to a node that waits for the reviewer.
Successor_AwaitsReview(node, st) ==
  CASE node = "fetch_history"     -> "process_query"
    [] node = "process_query"     -> "generate_response"
    [] node = "generate_response" -> "check_hitl"
    [] node = "check_hitl"        -> IF route_hitl(st) = "escalate"
                                       THEN "await_review"
                                       ELSE "save_interaction"
    [] node = "save_interaction"  -> "trim_state"
    [] node = "trim_state"        -> "DONE"

Successor(node, st) ==
  CASE node = "fetch_history"     -> "process_query"
    [] node = "process_query"     -> "generate_response"
    [] node = "generate_response" -> "check_hitl"
    [] node = "check_hitl"        -> IF route_hitl(st) = "escalate"
                                       THEN "ESCALATED"
                                       ELSE "save_interaction"
    [] node = "save_interaction"  -> "trim_state"
    [] node = "trim_state"        -> "DONE"

Nodes ==
  {"process_query", "fetch_history", "generate_response", "check_hitl",
   "save_interaction", "trim_state"}

Terminal == {"ESCALATED", "DONE"}

(***************************************************************************)
(* CustomerSupportAgent.process_message: one turn.  The call builds a     *)
(* fresh state holding the user's message, runs the graph from its entry   *)
(* point to END and returns the last "ai" message.                         *)
(***************************************************************************)
\* hitl_approved once a decision was given
Decision(approved) == IF approved THEN "True" ELSE "False"

\* CustomerSupportAgent.approve_hitl: the state it builds and what it returns.
\* A feedback of None is the empty text.
approve_hitl(user_id, thread_id, approved, feedback, now) ==
  LET message ==
        IF approved
          THEN "Your issue has been reviewed and approved. " \o
               (IF feedback # "" THEN feedback
                ELSE "Our team will contact you with the resolution.")
          ELSE "Your issue has been reviewed. " \o
               (IF feedback # "" THEN feedback
                ELSE "Our team will follow up with alternative solutions.")
  IN  [state  |-> [create_initial_state(user_id, thread_id, now) EXCEPT
                     !.hitl_approved = Decision(approved),
                     !.messages = Append(@, [type |-> "ai", content |-> message])],
       result |-> [returned   |-> TRUE,
                   status     |-> IF approved THEN "approved" ELSE "rejected",
                   message    |-> message,
                   session_id |-> user_id \o "_" \o thread_id]]

\* The chat handler of the session after process_message returned: a turn
\* that requires review joins the queue as a pending item.
enqueue_review(queue, requires_hitl, user_input, user_id, thread_id, now) ==
  IF requires_hitl
    THEN Append(queue, [query     |-> user_input,
                        user_id   |-> user_id,
                        thread_id |-> thread_id,
                        timestamp |-> now,
                        status    |-> "pending"])
    ELSE queue

\* The feedback the review buttons pass when the text area is left empty.
ApproveDefaultFeedback == "Resolution approved by human agent"

RejectDefaultFeedback ==
  "Escalated to specialized support team for further review"

ApologyResponse ==
  "I apologize, but I encountered an issue processing your request."

NoState == [messages |-> << >>]

NoResult == [returned |-> FALSE]

NoOp == [step |-> "none"]

NoCall == [returned |-> FALSE]

\* process_message answering with the empty text when no reply is found.
ProcessMessageResult_EmptyResponse(st) ==
  [returned      |-> TRUE,
   response      |-> LastAIContent(st.messages, ""),
   requires_hitl |-> st.requires_hitl,
   metadata      |-> st.metadata,
   session_id    |-> st.user_id \o "_" \o st.thread_id]

ProcessMessageResult(st) ==
  [returned      |-> TRUE,
   response      |-> LastAIContent(st.messages, ApologyResponse),
   requires_hitl |-> st.requires_hitl,
   metadata      |-> st.metadata,
   session_id    |-> st.user_id \o "_" \o st.thread_id]

Init ==
  /\ store = [u \in UserIds |-> NoFile]
  /\ clock = 0
  /\ pc = "idle"
  /\ state = NoState
  /\ executed = << >>
  /\ result = NoResult
  /\ ops = [c \in Callers |-> NoOp]
  /\ call = NoCall
  /\ hitl_queue = << >>

\* The queue holds an item of this user and thread that nobody decided yet.
PendingFor(user_id, thread_id) ==
  \E i \in DOMAIN hitl_queue :
    /\ hitl_queue[i].user_id = user_id
    /\ hitl_queue[i].thread_id = thread_id
    /\ hitl_queue[i].status = "pending"

\* process_message refusing a turn while a review of the thread is pending.
ProcessMessage_WaitsForReview(user_id, thread_id, message) ==
  /\ ~PendingFor(user_id, thread_id)
  /\ pc = "idle"
  /\ clock < MaxTurns
  /\ clock' = clock + 1
  /\ state' = [create_initial_state(user_id, thread_id, clock')
                 EXCEPT !.messages = Append(@, HumanMessage(message))]
  /\ pc' = EntryPoint
  /\ executed' = << >>
  /\ result' = NoResult
  /\ UNCHANGED <<store, ops, call, hitl_queue>>

ProcessMessage(user_id, thread_id, message) ==
  /\ pc = "idle"
  /\ clock < MaxTurns
  /\ clock' = clock + 1
  /\ state' = [create_initial_state(user_id, thread_id, clock')
                 EXCEPT !.messages = Append(@, HumanMessage(message))]
  /\ pc' = EntryPoint
  /\ executed' = << >>
  /\ result' = NoResult
  /\ UNCHANGED <<store, ops, call, hitl_queue>>

\* A node that reads and writes the session state only.
RunNode(node, after) ==
  /\ pc = node
  /\ \E updated \in {after} :
       /\ state' = updated
       /\ pc' = Successor(node, updated)
  /\ executed' = Append(executed, node)
  /\ UNCHANGED <<store, clock, result, ops, call, hitl_queue>>

FetchHistory ==
  \E read_ok \in BOOLEAN :
    RunNode("fetch_history", fetch_history_node(state, store, read_ok))

ProcessQuery == RunNode("process_query", process_query_node(state))

GenerateResponse ==
  RunNode("generate_response", generate_response_node(state, clock))

CheckHitl == RunNode("check_hitl", check_hitl_node(state))

SaveInteraction ==
  /\ pc = "save_interaction"
  /\ \E read_ok \in BOOLEAN, write_ok \in BOOLEAN :
       \E out \in {save_interaction_node(state, store, clock,
                                          read_ok, write_ok)} :
         /\ state' = out.state
         /\ store' = out.files
         /\ pc' = Successor("save_interaction", out.state)
  /\ executed' = Append(executed, "save_interaction")
  /\ UNCHANGED <<clock, result, ops, call, hitl_queue>>

TrimState == RunNode("trim_state", trim_state_node(state))

Return ==
  /\ pc \in Terminal
  /\ result' = ProcessMessageResult(state)
  /\ hitl_queue' = enqueue_review(hitl_queue, result'.requires_hitl,
                                  state.messages[1].content, state.user_id,
                                  state.thread_id, clock)
  /\ pc' = "idle"
  /\ state' = NoState
  /\ executed' = << >>
  /\ UNCHANGED <<store, clock, ops, call>>

Stage ==
  \/ FetchHistory
  \/ ProcessQuery
  \/ GenerateResponse
  \/ CheckHitl
  \/ SaveInteraction
  \/ TrimState

Next ==
  \/ \E u \in UserIds, t \in ThreadIds, q \in Queries : ProcessMessage(u, t, q)
  \/ Stage
  \/ Return

Spec == Init /\ [][Next]_vars

(***************************************************************************)
(* The agent together with the review of escalated turns.  approve_hitl   *)
(* is called by the review buttons of the session for a pending item of    *)
(* the queue, and it is a public method any caller may call.               *)
(***************************************************************************)
ReviewUserIds == {"u1", "u2"}

Feedbacks == {"", "We have reset it for you."}

\* A call of approve_hitl by a caller of the agent.
ApproveHitl(user_id, thread_id, approved, feedback) ==
  /\ pc = "idle"
  /\ pc' = "approve_hitl"
  /\ \E out \in {approve_hitl(user_id, thread_id, approved, feedback, clock)} :
       /\ state' = out.state
       /\ call' = [returned |-> FALSE, item |-> 0, approved |-> approved,
                   result |-> out.result]
  /\ result' = NoResult
  /\ UNCHANGED <<store, clock, executed, ops, hitl_queue>>

\* The review buttons offered for every item, pending or decided.
ReviewItem_AnyStatus(idx, approved, text) ==
  /\ pc = "idle"
  /\ idx \in DOMAIN hitl_queue
  /\ pc' = "approve_hitl"
  /\ \E out \in {approve_hitl(hitl_queue[idx].user_id,
                               hitl_queue[idx].thread_id, approved,
                               IF text # "" THEN text
                               ELSE IF approved THEN ApproveDefaultFeedback
                               ELSE RejectDefaultFeedback,
                               clock)} :
       /\ state' = out.state
       /\ call' = [returned |-> FALSE, item |-> idx, approved |-> approved,
                   result |-> out.result]
  /\ result' = NoResult
  /\ UNCHANGED <<store, clock, executed, ops, hitl_queue>>

\* The Approve and the Reject button of a pending item of the queue.
ReviewItem(idx, approved, text) ==
  /\ pc = "idle"
  /\ idx \in DOMAIN hitl_queue
  /\ hitl_queue[idx].status = "pending"
  /\ pc' = "approve_hitl"
  /\ \E out \in {approve_hitl(hitl_queue[idx].user_id,
                               hitl_queue[idx].thread_id, approved,
                               IF text # "" THEN text
                               ELSE IF approved THEN ApproveDefaultFeedback
                               ELSE RejectDefaultFeedback,
                               clock)} :
       /\ state' = out.state
       /\ call' = [returned |-> FALSE, item |-> idx, approved |-> approved,
                   result |-> out.result]
  /\ result' = NoResult
  /\ UNCHANGED <<store, clock, executed, ops, hitl_queue>>

\* approve_hitl returns; the button that called it marks its item.
ApproveReturn ==
  /\ pc = "approve_hitl"
  /\ result' = call.result
  /\ hitl_queue' = IF call.item > 0
                     THEN [hitl_queue EXCEPT ![call.item].status =
                             IF call.approved THEN "approved" ELSE "rejected"]
                     ELSE hitl_queue
  /\ pc' = "idle"
  /\ state' = NoState
  /\ call' = NoCall
  /\ UNCHANGED <<store, clock, executed, ops>>

\* The Defer button of a pending item: it shows a notice and does nothing
\* else.
DeferInfo == "Marked for later review"

DeferItem(idx) ==
  /\ pc = "idle"
  /\ idx \in DOMAIN hitl_queue
  /\ hitl_queue[idx].status = "pending"
  /\ call' = [returned |-> TRUE, item |-> idx, info |-> DeferInfo]
  /\ UNCHANGED <<store, clock, pc, state, executed, result, ops, hitl_queue>>

\* The End Session button empties the queue of the session.
EndSession ==
  /\ pc = "idle"
  /\ hitl_queue # << >>
  /\ hitl_queue' = << >>
  /\ call' = NoCall
  /\ UNCHANGED <<store, clock, pc, state, executed, result, ops>>

ReviewNext ==
  \/ Next
  \/ \E u \in ReviewUserIds, t \in ThreadIds, a \in BOOLEAN, f \in Feedbacks :
       ApproveHitl(u, t, a, f)
  \/ \E i \in 1..MaxTurns, a \in BOOLEAN : ReviewItem(i, a, "")
  \/ ApproveReturn
  \/ \E i \in 1..MaxTurns : DeferItem(i)
  \/ EndSession

ReviewSpec == Init /\ [][ReviewNext]_vars

\* graph.invoke runs a turn to its end; a decision may never come.
LiveReviewSpec == ReviewSpec /\ WF_vars(Stage) /\ WF_vars(Return)

(***************************************************************************)
(* Concurrent callers of one storage directory: every browser session     *)
(* holds its own CustomerSupportAgent over "./memory_storage", and nothing *)
(* in MemoryManager locks a file.  A call of append_to_history is two      *)
(* file operations, its read and its write, and the calls of different     *)
(* callers interleave between them.                                        *)
(***************************************************************************)
CallerEntryOf(query) ==
  [query      |-> query,
   resolution |-> generate_response(query, << >>).response,
   metadata   |-> [category  |-> generate_response(query, << >>).category,
                   thread_id |-> "t1"]]

ConcInit ==
  /\ store = [u \in UserIds |-> NoFile]
  /\ clock = 1
  /\ pc = "idle"
  /\ state = NoState
  /\ executed = << >>
  /\ result = NoResult
  /\ call = NoCall
  /\ hitl_queue = << >>
  /\ ops \in [Callers -> {[step    |-> "called",
                           user_id |-> u,
                           entry   |-> CallerEntryOf(q)] :
                             u \in CallerUserIds, q \in CallerQueries}]

AppendRead(c) ==
  /\ ops[c].step = "called"
  /\ \E read_ok \in BOOLEAN :
       LET loaded == append_load(store, ops[c].user_id, read_ok)
       IN  ops' = [ops EXCEPT ![c] =
                     IF loaded.valid
                       THEN [step    |-> "loaded",
                             user_id |-> ops[c].user_id,
                             entry   |-> ops[c].entry,
                             read_ok |-> read_ok,
                             data    |-> loaded.data]
                       ELSE [step    |-> "returned",
                             user_id |-> ops[c].user_id,
                             entry   |-> ops[c].entry,
                             read_ok |-> read_ok,
                             ok      |-> FALSE]]
  /\ UNCHANGED <<store, clock, pc, state, executed, result, call, hitl_queue>>

AppendWrite(c) ==
  /\ ops[c].step = "loaded"
  /\ \E write_ok \in BOOLEAN :
       LET saved == append_save(store, ops[c].user_id, ops[c].data,
                                ops[c].entry.query, ops[c].entry.resolution,
                                ops[c].entry.metadata, clock, write_ok)
       IN  /\ store' = saved.files
           /\ ops' = [ops EXCEPT ![c] =
                        [step    |-> "returned",
                         user_id |-> ops[c].user_id,
                         entry   |-> ops[c].entry,
                         read_ok |-> ops[c].read_ok,
                         ok      |-> saved.ok]]
  /\ UNCHANGED <<clock, pc, state, executed, result, call, hitl_queue>>

ConcNext == \E c \in Callers : AppendRead(c) \/ AppendWrite(c)

ConcSpec == ConcInit /\ [][ConcNext]_vars

(***************************************************************************)
(* Two callers of the store, each with one operation - append, clear, load *)
(* or a whole turn - on a user of its own choice, over a store in which    *)
(* some users have a history already.  The steps are the file operations:  *)
(* append reads and then writes, clear tests for the file and then removes *)
(* it, a turn loads the history and then appends.                          *)
(***************************************************************************)
get_user_file_path(user_id) == "user_" \o user_id \o ".json"

OldEntry ==
  NewEntry("where is my order", "Your order is on its way.", 0,
           [category |-> "general", thread_id |-> "t0"])

InitialStores ==
  { [u \in UserIds |->
       IF u \in users
         THEN save_long_term_memory([v \in UserIds |-> NoFile], u,
                                    <<OldEntry>>, NoMetadata, 0, TRUE).files[u]
         ELSE NoFile] : users \in SUBSET {"u1", "u2"} }

CallerOps ==
  UNION { {[step |-> "called", user_id |-> u, entry |-> CallerEntryOf(q)] :
             q \in CallerQueries}
          \cup {[step |-> "turn_called", user_id |-> u, query |-> q] :
                  q \in CallerQueries}
          \cup {[step |-> "clear_called", user_id |-> u],
                [step |-> "load_called", user_id |-> u]} : u \in CallerUserIds }

UserOpsInit ==
  /\ store \in InitialStores
  /\ clock = 1
  /\ pc = "idle"
  /\ state = NoState
  /\ executed = << >>
  /\ result = NoResult
  /\ call = [returned |-> FALSE, initial |-> store]
  /\ hitl_queue = << >>
  /\ ops \in [Callers -> CallerOps]

\* clear_user_history up to its test file_path.exists()
ClearCheck(c) ==
  /\ ops[c].step = "clear_called"
  /\ ops' = [ops EXCEPT ![c] =
               IF store[ops[c].user_id].exists
                 THEN [step |-> "clear_found", user_id |-> ops[c].user_id]
                 ELSE [step |-> "returned", user_id |-> ops[c].user_id,
                       cleared |-> TRUE, ok |-> TRUE]]
  /\ UNCHANGED <<store, clock, pc, state, executed, result, call, hitl_queue>>

\* clear_user_history from file_path.unlink() on; unlink raises when the
\* file has gone in the meantime, and the call returns False.
ClearUnlink(c) ==
  /\ ops[c].step = "clear_found"
  /\ \E unlink_ok \in BOOLEAN :
       \E out \in {IF store[ops[c].user_id].exists
                     THEN clear_user_history(store, ops[c].user_id, unlink_ok)
                     ELSE [files |-> store, ok |-> FALSE]} :
         /\ store' = out.files
         /\ ops' = [ops EXCEPT ![c] =
                      [step |-> "returned", user_id |-> ops[c].user_id,
                       cleared |-> TRUE, ok |-> out.ok]]
  /\ UNCHANGED <<clock, pc, state, executed, result, call, hitl_queue>>

LoadCall(c) ==
  /\ ops[c].step = "load_called"
  /\ \E read_ok \in BOOLEAN :
       ops' = [ops EXCEPT ![c] =
                 [step |-> "returned", user_id |-> ops[c].user_id,
                  history |-> load_long_term_memory(store, ops[c].user_id,
                                                    read_ok).user_history,
                  ok |-> TRUE]]
  /\ UNCHANGED <<store, clock, pc, state, executed, result, call, hitl_queue>>

\* A turn up to save_interaction_node: the history is loaded and the reply
\* generated; an escalated turn ends here, any other goes on to append.
TurnFetch(c) ==
  /\ ops[c].step = "turn_called"
  /\ \E read_ok \in BOOLEAN :
       \E history \in {load_long_term_memory(store, ops[c].user_id,
                                             read_ok).user_history} :
         \E res \in {generate_response(ops[c].query, history)} :
           ops' = [ops EXCEPT ![c] =
                     IF res.requires_hitl
                       THEN [step |-> "returned", user_id |-> ops[c].user_id,
                             history |-> history, ok |-> TRUE]
                       ELSE [step |-> "called", user_id |-> ops[c].user_id,
                             entry |-> [query      |-> ops[c].query,
                                        resolution |-> res.response,
                                        metadata   |->
                                          [category  |-> res.category,
                                           thread_id |-> "t1"]],
                             history |-> history]]
  /\ UNCHANGED <<store, clock, pc, state, executed, result, call, hitl_queue>>

UserOpsNext ==
  \E c \in Callers :
    \/ AppendRead(c)
    \/ AppendWrite(c)
    \/ ClearCheck(c)
    \/ ClearUnlink(c)
    \/ LoadCall(c)
    \/ TurnFetch(c)

UserOpsSpec == UserOpsInit /\ [][UserOpsNext]_vars

(***************************************************************************)
(* QueryProcessor.generate_response as a function of its arguments.       *)
(***************************************************************************)
HistoryOf(queries) ==
  [i \in 1..Len(queries) |->
     NewEntry(queries[i], generate_response(queries[i], << >>).response, 1,
              [category  |-> generate_response(queries[i], << >>).category,
               thread_id |-> "t1"])]

QueryInit ==
  /\ store = [u \in UserIds |-> NoFile]
  /\ clock = 0
  /\ pc = "idle"
  /\ state = NoState
  /\ executed = << >>
  /\ result = NoResult
  /\ ops = [c \in Callers |-> NoOp]
  /\ hitl_queue = << >>
  /\ call \in {[returned     |-> FALSE,
                query        |-> q,
                user_history |-> HistoryOf(h)] :
                  q \in SampleQueries, h \in SampleHistoryQueries}

GenerateResponseCall ==
  /\ ~call.returned
  /\ "query" \in DOMAIN call
  /\ call' = [returned     |-> TRUE,
              query        |-> call.query,
              user_history |-> call.user_history,
              result       |-> generate_response(call.query, call.user_history)]
  /\ UNCHANGED <<store, clock, pc, state, executed, result, ops, hitl_queue>>

\* QueryProcessor.analyze_query called on its own with the query.
AnalyzeQueryCall ==
  /\ "query" \in DOMAIN call
  /\ "analysis" \notin DOMAIN call
  /\ call' = [k \in DOMAIN call \cup {"analysis"} |->
                IF k = "analysis" THEN analyze_query(call.query) ELSE call[k]]
  /\ UNCHANGED <<store, clock, pc, state, executed, result, ops, hitl_queue>>

\* MockLLMNode.get_response called on its own with the query.
GetResponseCall ==
  /\ "query" \in DOMAIN call
  /\ "answer" \notin DOMAIN call
  /\ call' = [k \in DOMAIN call \cup {"answer"} |->
                IF k = "answer" THEN get_response(call.query) ELSE call[k]]
  /\ UNCHANGED <<store, clock, pc, state, executed, result, ops, hitl_queue>>

QueryNext ==
  \/ GenerateResponseCall
  \/ AnalyzeQueryCall
  \/ GetResponseCall

QuerySpec == QueryInit /\ [][QueryNext]_vars

(***************************************************************************)
(* The MemoryManager called operation after operation by one caller.  call *)
(* holds the last operation with its result, and the one before it.        *)
(***************************************************************************)
MaxCalls == 3

NoEntry == [query |-> ""]

\* The texts a caller of append_to_history passes of its own.
CallerTexts == {"", "note"}

StoreInit ==
  /\ store = [u \in UserIds |-> NoFile]
  /\ clock = 0
  /\ pc = "idle"
  /\ state = NoState
  /\ executed = << >>
  /\ result = NoResult
  /\ ops = [c \in Callers |-> NoOp]
  /\ hitl_queue = << >>
  /\ call = [returned |-> TRUE, op |-> "none", user_id |-> "", ok |-> TRUE,
             read_ok |-> TRUE, entry |-> NoEntry, history |-> << >>]

\* The entries the caller appends, one for each of its queries.
CallerEntries == {CallerEntryOf(q) : q \in CallerQueries}

\* What the next operation remembers of the one before it.
Previous ==
  [op |-> call.op, user_id |-> call.user_id, ok |-> call.ok,
   entry |-> call.entry, history |-> call.history]

StoreAppend(user_id, query) ==
  /\ clock < MaxCalls
  /\ clock' = clock + 1
  /\ \E read_ok \in BOOLEAN, write_ok \in BOOLEAN :
       \E e \in {c \in CallerEntries : c.query = query} :
         \E out \in {append_to_history(store, user_id, e.query, e.resolution,
                                       e.metadata, clock', read_ok, write_ok)} :
           /\ store' = out.files
           /\ call' = [returned |-> TRUE, op |-> "append",
                       user_id |-> user_id, ok |-> out.ok,
                       read_ok |-> read_ok,
                       entry |-> NewEntry(e.query, e.resolution, clock',
                                          e.metadata),
                       history |-> << >>, previous |-> Previous]
  /\ UNCHANGED <<pc, state, executed, result, ops, hitl_queue>>

\* append_to_history called with a query and a resolution of the caller's own.
StoreAppendText(user_id, query, resolution) ==
  /\ clock < MaxCalls
  /\ clock' = clock + 1
  /\ \E read_ok \in BOOLEAN, write_ok \in BOOLEAN :
       \E out \in {append_to_history(store, user_id, query, resolution,
                                     NoMetadata, clock', read_ok, write_ok)} :
         /\ store' = out.files
         /\ call' = [returned |-> TRUE, op |-> "append",
                     user_id |-> user_id, ok |-> out.ok,
                     read_ok |-> read_ok,
                     entry |-> NewEntry(query, resolution, clock', NoMetadata),
                     history |-> << >>, previous |-> Previous]
  /\ UNCHANGED <<pc, state, executed, result, ops, hitl_queue>>

StoreLoad(user_id) ==
  /\ clock < MaxCalls
  /\ clock' = clock + 1
  /\ \E read_ok \in BOOLEAN :
       call' = [returned |-> TRUE, op |-> "load", user_id |-> user_id,
                ok |-> TRUE, read_ok |-> read_ok, entry |-> NoEntry,
                history |-> load_long_term_memory(store, user_id,
                                                  read_ok).user_history,
                previous |-> Previous]
  /\ UNCHANGED <<store, pc, state, executed, result, ops, hitl_queue>>

\* history[-limit:] if len(history) > limit else history
get_recent_history(files, user_id, limit, read_ok) ==
  LET history == load_long_term_memory(files, user_id, read_ok).user_history
  IN  IF Len(history) > limit THEN SliceFrom(history, -limit) ELSE history

\* The limits get_user_history is called with.
MaxLimit == 2

\* get_user_history of the agent, which passes its limit on to
\* get_recent_history.
StoreRecent(user_id, limit) ==
  /\ clock < MaxCalls
  /\ clock' = clock + 1
  /\ \E read_ok \in BOOLEAN :
       call' = [returned |-> TRUE, op |-> "recent", user_id |-> user_id,
                ok |-> TRUE, read_ok |-> read_ok, entry |-> NoEntry,
                history |-> get_recent_history(store, user_id, limit, read_ok),
                limit |-> limit, previous |-> Previous]
  /\ UNCHANGED <<store, pc, state, executed, result, ops, hitl_queue>>

StoreClear(user_id) ==
  /\ clock < MaxCalls
  /\ clock' = clock + 1
  /\ \E unlink_ok \in BOOLEAN :
       \E out \in {clear_user_history(store, user_id, unlink_ok)} :
         /\ store' = out.files
         /\ call' = [returned |-> TRUE, op |-> "clear", user_id |-> user_id,
                     ok |-> out.ok, read_ok |-> TRUE, entry |-> NoEntry,
                     history |-> << >>, previous |-> Previous]
  /\ UNCHANGED <<pc, state, executed, result, ops, hitl_queue>>

StoreNext ==
  \/ \E u \in CallerUserIds, q \in CallerQueries : StoreAppend(u, q)
  \/ \E u \in CallerUserIds, q \in CallerTexts, r \in CallerTexts :
       StoreAppendText(u, q, r)
  \/ \E u \in CallerUserIds : StoreLoad(u)
  \/ \E u \in CallerUserIds : StoreClear(u)
  \/ \E u \in CallerUserIds, limit \in 0..MaxLimit : StoreRecent(u, limit)

StoreSpec == StoreInit /\ [][StoreNext]_vars

(***************************************************************************)
(* trim_messages as a function of its arguments: every log of up to MaxLog *)
(* messages of the three types, each message with a content of its own.    *)
(***************************************************************************)
MaxLog == 4

MaxKeep == 3

MessageTypes == {"system", "human", "ai"}

MessageLogs ==
  UNION {{[i \in 1..n |-> [type |-> types[i],
                            content |-> "message " \o ToString(i)]] :
            types \in [1..n -> MessageTypes]} : n \in 0..MaxLog}

TrimInit ==
  /\ store = [u \in UserIds |-> NoFile]
  /\ clock = 0
  /\ pc = "idle"
  /\ state = NoState
  /\ executed = << >>
  /\ result = NoResult
  /\ ops = [c \in Callers |-> NoOp]
  /\ hitl_queue = << >>
  /\ call \in {[returned        |-> FALSE,
                state           |-> [create_initial_state("u1", "t1", 0)
                                       EXCEPT !.messages = log],
                max_messages    |-> m,
                preserve_system |-> p] :
                  log \in MessageLogs, m \in 0..MaxKeep, p \in BOOLEAN}

TrimCall ==
  /\ ~call.returned
  /\ "max_messages" \in DOMAIN call
  /\ call' = [returned        |-> TRUE,
              state           |-> call.state,
              max_messages    |-> call.max_messages,
              preserve_system |-> call.preserve_system,
              result          |-> trim_messages(call.state, call.max_messages,
                                                call.preserve_system)]
  /\ UNCHANGED <<store, clock, pc, state, executed, result, ops, hitl_queue>>

\* trim_messages applied to the state that the first call returned.
TrimAgain ==
  /\ call.returned
  /\ "max_messages" \in DOMAIN call
  /\ "again" \notin DOMAIN call
  /\ call' = [returned        |-> TRUE,
              state           |-> call.state,
              max_messages    |-> call.max_messages,
              preserve_system |-> call.preserve_system,
              result          |-> call.result,
              again           |-> trim_messages(call.result, call.max_messages,
                                                call.preserve_system)]
  /\ UNCHANGED <<store, clock, pc, state, executed, result, ops, hitl_queue>>

TrimNext == TrimCall \/ TrimAgain

TrimSpec == TrimInit /\ [][TrimNext]_vars

(***************************************************************************)
(* filter_messages as a function of its arguments: every log of up to      *)
(* MaxFilterLog messages drawn from FilterMessages, and a few longer logs  *)
(* in which a message is repeated after three and more other messages.     *)
(* A message carries its position in the log as id.                        *)
(***************************************************************************)
MaxFilterLog == 3

Message(type, content) == [type |-> type, content |-> content]

RepeatedMessage == Message("human", "Send me a new invoice copy")

RepeatedVariant == Message("human", "  SEND ME A NEW INVOICE COPY ")

ShortMessage == Message("human", "ok")

OtherMessages ==
  << Message("ai", "Your order leaves on Monday"),
     Message("human", "We open at nine on Sunday"),
     Message("human", "Please call me back later") >>

FilterMessages ==
  { Message("system", "Send me a new invoice copy"),
    Message("human", "Hi, help!"),
    ShortMessage,
    Message("ai", "Hello there, welcome back"),
    Message("human", " Understood "),
    RepeatedMessage,
    RepeatedVariant,
    Message("ai", "Your account is active") }

WithIds(messages) ==
  [i \in 1..Len(messages) |->
     [type |-> messages[i].type, content |-> messages[i].content, id |-> i]]

LongFilterLogs ==
  { <<RepeatedMessage>> \o OtherMessages \o <<RepeatedVariant>>,
    <<RepeatedMessage>> \o SubSeq(OtherMessages, 1, 2) \o <<RepeatedVariant>>,
    <<RepeatedMessage, ShortMessage, ShortMessage, ShortMessage,
      RepeatedVariant>>,
    <<RepeatedMessage, ShortMessage>> \o OtherMessages
      \o <<ShortMessage, RepeatedVariant>> }

FilterLogs ==
  {WithIds(log) : log \in LongFilterLogs \cup
                          UNION {[1..n -> FilterMessages] : n \in 0..MaxFilterLog}}

FilterConfigs ==
  { DefaultFilterConfig,
    [DefaultFilterConfig EXCEPT !.preserve_important = FALSE],
    [DefaultFilterConfig EXCEPT !.filter_short_messages = FALSE],
    [DefaultFilterConfig EXCEPT !.filter_greetings = FALSE],
    [DefaultFilterConfig EXCEPT !.filter_non_actionable = FALSE],
    [DefaultFilterConfig EXCEPT !.filter_repetitive = FALSE] }

\* exclude_roles and filter_config
FilterArguments ==
  {<<{}, config>> : config \in FilterConfigs}
    \cup {<<{"ai"}, DefaultFilterConfig>>}

FilterInit ==
  /\ store = [u \in UserIds |-> NoFile]
  /\ clock = 0
  /\ pc = "idle"
  /\ state = NoState
  /\ executed = << >>
  /\ result = NoResult
  /\ ops = [c \in Callers |-> NoOp]
  /\ hitl_queue = << >>
  /\ call \in {[returned      |-> FALSE,
                state         |-> [create_initial_state("u1", "t1", 0)
                                     EXCEPT !.messages = log],
                exclude_roles |-> arguments[1],
                filter_config |-> arguments[2]] :
                  log \in FilterLogs, arguments \in FilterArguments}

FilterCall ==
  /\ ~call.returned
  /\ "filter_config" \in DOMAIN call
  /\ call' = [returned      |-> TRUE,
              state         |-> call.state,
              exclude_roles |-> call.exclude_roles,
              filter_config |-> call.filter_config,
              result        |-> filter_messages(call.state, call.exclude_roles,
                                                call.filter_config)]
  /\ UNCHANGED <<store, clock, pc, state, executed, result, ops, hitl_queue>>

\* filter_messages called again on the state it returned.
FilterAgain ==
  /\ call.returned
  /\ "filter_config" \in DOMAIN call
  /\ "again" \notin DOMAIN call
  /\ call' = [returned      |-> TRUE,
              state         |-> call.state,
              exclude_roles |-> call.exclude_roles,
              filter_config |-> call.filter_config,
              result        |-> call.result,
              again         |-> filter_messages(call.result, call.exclude_roles,
                                                call.filter_config)]
  /\ UNCHANGED <<store, clock, pc, state, executed, result, ops, hitl_queue>>

FilterNext ==
  \/ FilterCall
  \/ FilterAgain

FilterSpec == FilterInit /\ [][FilterNext]_vars

(***************************************************************************)
(* The pipeline under the scheduling of graph.invoke: the call runs the    *)
(* graph synchronously, node after node, and then returns.                 *)
(***************************************************************************)
LiveSpec == Spec /\ WF_vars(Stage) /\ WF_vars(Return)

(***************************************************************************)
(* Vocabulary of the properties.                                           *)
(***************************************************************************)
Range(seq) == {seq[i] : i \in 1..Len(seq)}

StageOrder ==
  << "fetch_history", "process_query", "generate_response", "check_hitl",
     "save_interaction", "trim_state" >>

BranchStage == "check_hitl"

InFlight == pc # "idle"

StoredHistory(files, user_id) ==
  IF files[user_id].exists THEN files[user_id].user_history ELSE << >>

CurrentQuery == Get(state.metadata, "current_query", "")

\* The query names an escalation-trigger term, in whatever case.
HasTriggerTerm(query) ==
  \E i \in 1..Len(complex_indicators) :
    Contains(Lower(query), complex_indicators[i])

\* The query has letters and none of them is lower-case.
EntirelyUpperCase(query) ==
  /\ Lower(query) # query
  /\ \A i \in 1..Len(query) : ~IsLowerChar(CharAt(query, i))

EscalationCondition(query) ==
  \/ HasTriggerTerm(query)
  \/ Count(query, "?") > 2
  \/ (EntirelyUpperCase(query) /\ Len(query) > 20)

HasAuthenticationTerm(query) ==
  \E i \in 1..Len(auth_keywords) : Contains(Lower(query), auth_keywords[i])

HasKnowledgeBaseKeyword(query) ==
  \E i \in 1..Len(knowledge_base) :
    \E k \in 1..Len(knowledge_base[i].keywords) :
      Contains(Lower(query), knowledge_base[i].keywords[k])

ScriptedAnswers ==
  {mock_responses[i].answer : i \in 1..Len(mock_responses)}
    \cup {DefaultAuthResponse}

\* The replies of the knowledge-base path for a query: a category template
\* or the request for details, with or without the note on the history.
KnowledgeBaseReplies(query) ==
  LET plain == {knowledge_base[i].response : i \in 1..Len(knowledge_base)}
                 \cup {GenericPrefix \o query \o GenericSuffix}
  IN  plain \cup {HistoryNotePrefix \o r \o HistoryNoteSuffix : r \in plain}

(***************************************************************************)
(* C1.  Two concurrent appends to the history of one user that both        *)
(* report success (and whose reads both succeeded) leave both entries in   *)
(* the stored history, under every interleaving of their steps.            *)
(***************************************************************************)
C1_ConcurrentAppendsBothStored ==
  \A c \in Callers, d \in Callers :
    ( /\ c # d
      /\ ops[c].step = "returned" /\ ops[d].step = "returned"
      /\ ops[c].ok /\ ops[d].ok
      /\ ops[c].read_ok /\ ops[d].read_ok
      /\ ops[c].user_id = ops[d].user_id )
    => LET history == StoredHistory(store, ops[c].user_id)
       IN  \E i \in 1..Len(history), j \in 1..Len(history) :
             /\ i # j
             /\ history[i].query = ops[c].entry.query
             /\ history[i].resolution = ops[c].entry.resolution
             /\ history[j].query = ops[d].entry.query
             /\ history[j].resolution = ops[d].entry.resolution

(***************************************************************************)
(* C2.  A step taken at check_hitl with requires_hitl set ends the run in  *)
(* ESCALATED: save_interaction and trim_state have not run, and the files  *)
(* of every user and the message log are what they were at check_hitl.     *)
(***************************************************************************)
C2_EscalationSkipsSaveAndTrim ==
  [][ (pc = BranchStage /\ state.requires_hitl /\ pc' # pc)
        => /\ pc' = "ESCALATED"
           /\ store' = store
           /\ state'.messages = state.messages
           /\ Range(executed') \cap {"save_interaction", "trim_state"} = {} ]_vars

C2_Witness ==
  /\ pc = "ESCALATED"
  /\ state.requires_hitl
  /\ \E u \in UserIds : store[u].exists
  /\ Len(state.messages) = 2

(***************************************************************************)
(* C3.  An invocation runs the stages in the order fetch_history,          *)
(* process_query, generate_response, check_hitl, then save_interaction     *)
(* and trim_state to DONE or nothing to ESCALATED; the stages run so far   *)
(* are always a prefix of that order, and only check_hitl has two          *)
(* successors.                                                             *)
(***************************************************************************)
C3_Step ==
  \/ UNCHANGED <<pc, executed>>
  \/ pc = "idle" /\ pc' = StageOrder[1] /\ executed' = << >>
  \/ \E k \in 1..Len(StageOrder) :
       /\ pc = StageOrder[k]
       /\ executed = SubSeq(StageOrder, 1, k - 1)
       /\ executed' = SubSeq(StageOrder, 1, k)
       /\ IF StageOrder[k] = BranchStage
            THEN pc' \in {StageOrder[k + 1], "ESCALATED"}
            ELSE IF k = Len(StageOrder) THEN pc' = "DONE"
            ELSE pc' = StageOrder[k + 1]
  \/ pc \in {"ESCALATED", "DONE"} /\ pc' = "idle"

C3_StagesRunInFixedOrder == [][C3_Step]_vars

C3_Witness ==
  /\ pc = "DONE"
  /\ executed = StageOrder
  /\ clock = MaxTurns

(***************************************************************************)
(* C4.  An invocation that has passed check_hitl with requires_hitl set is *)
(* in ESCALATED, one that has run trim_state is in DONE, never both; and   *)
(* from a terminal state the session state, the stages run and the store   *)
(* stay as they are until the call returns.                                *)
(***************************************************************************)
C4_EscalationReached ==
  InFlight /\ BranchStage \in Range(executed) /\ state.requires_hitl

C4_CompletionReached == InFlight /\ "trim_state" \in Range(executed)

C4_OneTerminal ==
  /\ C4_EscalationReached => pc = "ESCALATED"
  /\ C4_CompletionReached => pc = "DONE"
  /\ ~(C4_EscalationReached /\ C4_CompletionReached)

C4_TerminalStep ==
  pc \in {"ESCALATED", "DONE"}
    => /\ store' = store
       /\ \/ UNCHANGED <<pc, state, executed>>
          \/ pc' = "idle"

C4_TerminalStatesAreFinal == [](C4_OneTerminal) /\ [][C4_TerminalStep]_vars

C4_Witness ==
  /\ pc = "ESCALATED"
  /\ C4_EscalationReached
  /\ clock = 1

(***************************************************************************)
(* C5.  Every invocation in flight reaches DONE or ESCALATED, by steps of  *)
(* the graph alone.                                                        *)
(***************************************************************************)
C5_EveryInvocationTerminates ==
  (pc \in Nodes) ~> (pc \in {"ESCALATED", "DONE"})

C5_Witness ==
  /\ pc = "ESCALATED"
  /\ state.hitl_approved = NotApproved
  /\ state.user_history # << >>

(***************************************************************************)
(* C6.  A query that names an escalation-trigger term gets requires_hitl,  *)
(* the category "escalation" and confidence 1.0.                           *)
(***************************************************************************)
C6_TriggerTermEscalates ==
  (call.returned /\ HasTriggerTerm(call.query))
    => /\ call.result.requires_hitl
       /\ call.result.category = "escalation"
       /\ call.result.confidence = ConfidenceFull

C6_Witness ==
  /\ call.returned
  /\ HasTriggerTerm(call.query)
  /\ HasAuthenticationTerm(call.query)
  /\ HasKnowledgeBaseKeyword(call.query)
  /\ ~EntirelyUpperCase(call.query)
  /\ call.result.category = "escalation"

(***************************************************************************)
(* C7.  requires_hitl is returned exactly for the queries that name a      *)
(* trigger term, hold more than two "?" or are entirely upper-case and     *)
(* longer than 20 characters.                                              *)
(***************************************************************************)
C7_ReviewIffEscalationCondition ==
  call.returned
    => (call.result.requires_hitl <=> EscalationCondition(call.query))

C7_Witness ==
  /\ call.returned
  /\ call.result.requires_hitl
  /\ ~HasTriggerTerm(call.query)
  /\ Count(call.query, "?") <= 2

(***************************************************************************)
(* C8.  A query under an escalation condition gets the escalation message  *)
(* and neither a scripted authentication answer nor a knowledge-base       *)
(* reply; any other query with authentication vocabulary gets a scripted   *)
(* answer and no knowledge-base reply.                                     *)
(***************************************************************************)
C8_PathsInOrder ==
  call.returned
    => /\ EscalationCondition(call.query)
            => /\ call.result.response = EscalationResponse
               /\ call.result.response \notin ScriptedAnswers
               /\ call.result.response \notin KnowledgeBaseReplies(call.query)
               /\ "source" \notin DOMAIN call.result
       /\ (~EscalationCondition(call.query) /\ HasAuthenticationTerm(call.query))
            => /\ call.result.response \in ScriptedAnswers
               /\ call.result.response \notin KnowledgeBaseReplies(call.query)
               /\ call.result.response # EscalationResponse
               /\ call.result.source = "mock_llm"

C8_Witness ==
  /\ call.returned
  /\ Count(call.query, "?") > 2
  /\ HasAuthenticationTerm(call.query)
  /\ HasKnowledgeBaseKeyword(call.query)
  /\ call.result.response = EscalationResponse

(***************************************************************************)
(* C9.  A query under no escalation condition that has authentication      *)
(* vocabulary gets requires_hitl false, the category "authentication" and  *)
(* confidence 0.95; if, lower-cased and stripped, it is a question of the  *)
(* catalog, the reply is that question's answer.                           *)
(***************************************************************************)
C9_AuthenticationPath ==
  (call.returned /\ ~EscalationCondition(call.query)
     /\ HasAuthenticationTerm(call.query))
    => /\ ~call.result.requires_hitl
       /\ call.result.category = "authentication"
       /\ call.result.confidence = ConfidenceAuth
       /\ \A i \in 1..Len(mock_responses) :
            Strip(Lower(call.query)) = mock_responses[i].question
              => call.result.response = mock_responses[i].answer

C9_Witness ==
  /\ call.returned
  /\ ~EscalationCondition(call.query)
  /\ \E i \in 2..Len(mock_responses) :
       /\ Strip(Lower(call.query)) = mock_responses[i].question
       /\ call.query # mock_responses[i].question
       /\ call.result.response = mock_responses[i].answer

(***************************************************************************)
(* C10.  The save_interaction step of a turn with a non-empty user_id and  *)
(* a non-empty current query appends exactly one entry to that user's      *)
(* stored history: the turn's query with the content of the turn's "ai"    *)
(* message as resolution.  Every turn that ends in DONE takes that step    *)
(* once, and no other step writes the store.                               *)
(***************************************************************************)
C10_DoneTurnAppendsOneEntry ==
  [][ (pc = "save_interaction" /\ pc' # pc
         /\ state.user_id # "" /\ CurrentQuery # "")
        => LET before == StoredHistory(store, state.user_id)
               after  == StoredHistory(store', state.user_id)
           IN  /\ Len(after) = Len(before) + 1
               /\ SubSeq(after, 1, Len(before)) = before
               /\ after[Len(after)].query = CurrentQuery
               /\ after[Len(after)].resolution = LastAIContent(state.messages, "")
               /\ \A u \in UserIds \ {state.user_id} : store'[u] = store[u] ]_vars


IsPrefix(a, b) == Len(a) <= Len(b) /\ SubSeq(b, 1, Len(a)) = a

(***************************************************************************)
(* C12: the history is append-only.  At every step the stored history of   *)
(* every user before the step is a prefix of the one after it, and the     *)
(* store changes only in the save_interaction stage of a turn that is not  *)
(* escalated.                                                              *)
(***************************************************************************)
C12_HistoryAppendOnly ==
  [][ /\ \A u \in UserIds :
           IsPrefix(StoredHistory(store, u), StoredHistory(store', u))
      /\ (store' # store
            => pc = "save_interaction" /\ ~state.requires_hitl) ]_vars

\* The store holds the interaction of the turn that is ending.
Persisted ==
  LET history == StoredHistory(store, state.user_id)
  IN  /\ Len(history) > 0
      /\ history[Len(history)].timestamp = clock
      /\ history[Len(history)].query = CurrentQuery

\* What process_message returns tells the caller that the turn failed.
ReportsFailure(returned) ==
  \/ "error" \in DOMAIN returned
  \/ returned.response = ApologyResponse

(***************************************************************************)
(* C13: a turn whose interaction could not be persisted is reported to the *)
(* caller as failed: process_message does not return a normal response     *)
(* for a turn with a usable user_id and a query that ends with its         *)
(* interaction missing from the store.                                     *)
(***************************************************************************)
C13_StoreFailureReported ==
  [][ (pc = "DONE" /\ pc' = "idle"
         /\ Strip(state.user_id) # "" /\ CurrentQuery # "" /\ ~Persisted)
        => ReportsFailure(result') ]_vars

(***************************************************************************)
(* C14: approve_hitl for a user and thread with no pending escalation      *)
(* never returns the status approved or rejected.                          *)
(***************************************************************************)
C14_ResolveWithoutPendingIsNotFound ==
  [][ (pc = "approve_hitl" /\ pc' = "idle"
         /\ ~PendingFor(state.user_id, state.thread_id))
        => result'.status \notin {"approved", "rejected"} ]_vars

(***************************************************************************)
(* C15: hitl_approved is None in every session state except one built by   *)
(* the resolution of an escalation that is pending at that moment; no      *)
(* stage of the pipeline sets it.                                          *)
(***************************************************************************)
C15_ReviewDecisionOnlyFromResolution ==
  (pc # "idle" /\ state.hitl_approved # NotApproved)
    => /\ pc = "approve_hitl"
       /\ PendingFor(state.user_id, state.thread_id)

(***************************************************************************)
(* C16: an escalation never blocks the engine.  While an escalation of a   *)
(* user and thread is pending, process_message accepts a further turn of   *)
(* that user and thread, and such a turn runs to a terminal state.         *)
(***************************************************************************)
C16_EscalationNeverBlocks ==
  /\ [](\A u \in ReviewUserIds, t \in ThreadIds :
          (pc = "idle" /\ clock < MaxTurns /\ PendingFor(u, t))
            => ENABLED ProcessMessage(u, t, "why??"))
  /\ ((pc \in Nodes /\ PendingFor(state.user_id, state.thread_id))
        ~> (pc \in Terminal))

C16_Witness ==
  /\ pc \in Terminal
  /\ PendingFor(state.user_id, state.thread_id)
  /\ \E i \in DOMAIN hitl_queue : hitl_queue[i].timestamp < clock

\* A call of trim_messages has returned; what went in and what came out.
Trimmed == call.returned /\ "max_messages" \in DOMAIN call

TrimInput == call.state.messages

TrimOutput == call.result.messages

SystemOf(messages) == SelectSeq(messages, IsSystem)

NonSystemOf(messages) == SelectSeq(messages, NotSystem)

LastN(seq, n) == SubSeq(seq, Len(seq) - n + 1, Len(seq))

\* a is b with some elements left out (no message occurs twice in b)
IsSubsequence(a, b) ==
  /\ \A i \in 1..Len(a) : a[i] \in Range(b)
  /\ \A i, j \in 1..Len(a) :
       i < j => \E k, l \in 1..Len(b) : k < l /\ b[k] = a[i] /\ b[l] = a[j]

(***************************************************************************)
(* C17: trim with preserve_system never removes a system message: every    *)
(* system message of the input is in the output, for every log and max.    *)
(***************************************************************************)
C17_TrimKeepsSystemMessages ==
  (Trimmed /\ call.preserve_system)
    => \A i \in 1..Len(TrimInput) :
         IsSystem(TrimInput[i]) => TrimInput[i] \in Range(TrimOutput)

C17_Witness ==
  /\ Trimmed /\ call.preserve_system
  /\ Len(NonSystemOf(TrimInput)) > call.max_messages
  /\ Len(SystemOf(TrimInput)) = 2
  /\ IsSystem(TrimInput[1])
  /\ Len(TrimOutput) < Len(TrimInput)
  /\ SystemOf(TrimOutput) = SystemOf(TrimInput)

(***************************************************************************)
(* C18: for a log longer than max with s <= max system messages, trim with *)
(* preserve_system keeps all system messages and exactly the max - s most  *)
(* recent other messages, max messages in all.                             *)
(***************************************************************************)
C18_TrimKeepsExactlyMax ==
  (Trimmed /\ call.preserve_system
     /\ Len(TrimInput) > call.max_messages
     /\ Len(SystemOf(TrimInput)) <= call.max_messages)
    => /\ SystemOf(TrimOutput) = SystemOf(TrimInput)
       /\ NonSystemOf(TrimOutput) =
            LastN(NonSystemOf(TrimInput),
                  call.max_messages - Len(SystemOf(TrimInput)))
       /\ Len(TrimOutput) = call.max_messages

(***************************************************************************)
(* C19: the output of trim is a subsequence of its input, also when system *)
(* and other messages are interleaved.                                     *)
(***************************************************************************)
C19_TrimKeepsOrder ==
  Trimmed => IsSubsequence(TrimOutput, TrimInput)

(***************************************************************************)
(* C20: whenever trim removes messages from a log of n messages, metadata  *)
(* records messages_trimmed = n - kept and total_messages_before_trim = n; *)
(* a log of n > max messages with no system message is cut to its last     *)
(* max messages with messages_trimmed = n - max.                           *)
(***************************************************************************)
C20_TrimRecordsCounts ==
  Trimmed
    => /\ (Len(TrimOutput) < Len(TrimInput)
            => /\ Get(call.result.metadata, "messages_trimmed", -1) =
                    Len(TrimInput) - Len(TrimOutput)
               /\ Get(call.result.metadata, "total_messages_before_trim", -1) =
                    Len(TrimInput))
       /\ ((Len(TrimInput) > call.max_messages /\ SystemOf(TrimInput) = << >>)
            => /\ TrimOutput = LastN(TrimInput, call.max_messages)
               /\ Get(call.result.metadata, "messages_trimmed", -1) =
                    Len(TrimInput) - call.max_messages)

(***************************************************************************)
(* C21: trim applied to a log of at most max messages is a no-op: it       *)
(* returns the message log and the metadata unchanged.                     *)
(***************************************************************************)
C21_TrimNoOpWithinMax ==
  (Trimmed /\ Len(TrimInput) <= call.max_messages)
    => /\ TrimOutput = TrimInput
       /\ call.result.metadata = call.state.metadata
       /\ call.result = call.state

C21_Witness ==
  /\ Trimmed /\ call.preserve_system
  /\ Len(TrimInput) = call.max_messages
  /\ Len(SystemOf(TrimInput)) = 1
  /\ Len(NonSystemOf(TrimInput)) = 2
  /\ ~IsSystem(TrimInput[1])
  /\ call.result = call.state

\* The first call has been followed by a second one on its result.
TrimmedTwice == Trimmed /\ "again" \in DOMAIN call

(***************************************************************************)
(* C22: trim is idempotent: for every message log, max and preserve_system *)
(* setting, trim applied to the output of trim yields the same message log *)
(* as trim applied once.                                                   *)
(***************************************************************************)
C22_TrimIdempotent ==
  TrimmedTwice => call.again.messages = TrimOutput

\* A call of filter_messages has returned; what went in and what came out.
Filtered == call.returned /\ "filter_config" \in DOMAIN call

FilterInput == call.state.messages

FilterOutput == call.result.messages

Accepted(msg) == msg \in Range(FilterOutput)

\* The messages accepted by the pass before it came to the i-th message.
AcceptedBefore(i) == SelectSeq(SubSeq(FilterInput, 1, i - 1), Accepted)

HasImportantKeyword(msg) ==
  ContainsAny(MessageContent(msg), important_keywords)

HasGreetingKeyword(msg) ==
  ContainsAny(MessageContent(msg), greeting_keywords \o farewell_keywords)

IsNonActionable(msg) == MessageContent(msg) \in non_actionable_keywords

\* msg has the content of one of the last 3 messages of accepted
DuplicatesRecent(msg, accepted) ==
  \E k \in 1..Len(accepted) :
     /\ k > Len(accepted) - 3
     /\ MessageContent(accepted[k]) = MessageContent(msg)

\* msg is short, a greeting, non-actionable or a duplicate
HasDropReason(msg, accepted, min_length) ==
  \/ Len(MessageContent(msg)) < min_length
  \/ HasGreetingKeyword(msg)
  \/ IsNonActionable(msg)
  \/ DuplicatesRecent(msg, accepted)

(***************************************************************************)
(* C23, as stated: filter never removes a message whose content contains   *)
(* an important keyword, whatever the excluded roles and configuration.    *)
(***************************************************************************)
C23_ImportantNeverRemoved ==
  Filtered
    => \A i \in 1..Len(FilterInput) :
         HasImportantKeyword(FilterInput[i]) => Accepted(FilterInput[i])

(***************************************************************************)
(* C23: with preserve_important set, filter never removes a message whose  *)
(* role is not in exclude_roles and whose content contains an important    *)
(* keyword: such a message is in the output even if it is shorter than     *)
(* min_length, matches a greeting or non-actionable phrase, or duplicates  *)
(* a recently accepted message.                                            *)
(***************************************************************************)
C23_ImportantKeptUnlessExcluded ==
  (Filtered /\ call.filter_config.preserve_important)
    => \A i \in 1..Len(FilterInput) :
         (/\ FilterInput[i].type \notin call.exclude_roles
          /\ HasImportantKeyword(FilterInput[i]))
           => Accepted(FilterInput[i])

C23_Witness ==
  /\ Filtered
  /\ call.filter_config = DefaultFilterConfig
  /\ call.exclude_roles = {"ai"}
  /\ Len(FilterInput) = 3
  /\ \A i \in 1..3 :
        /\ HasImportantKeyword(FilterInput[i])
        /\ ~IsSystem(FilterInput[i])
        /\ HasDropReason(FilterInput[i], AcceptedBefore(i), 10)
  /\ MessageContent(FilterInput[1]) = MessageContent(FilterInput[2])
  /\ HasGreetingKeyword(FilterInput[3])
  /\ FilterOutput = FilterInput

\* The precedence of the decision on msg, each drop rule either in force or
\* not.
Precedence(msg, accepted, exclude_roles, preserve_important, min_length,
           short, greetings, non_actionable, repetitive) ==
  IF msg.type \in exclude_roles THEN FALSE
  ELSE IF IsSystem(msg) \/ (preserve_important /\ HasImportantKeyword(msg))
    THEN TRUE
  ELSE IF short /\ Len(MessageContent(msg)) < min_length THEN FALSE
  ELSE IF greetings /\ HasGreetingKeyword(msg) THEN FALSE
  ELSE IF non_actionable /\ IsNonActionable(msg) THEN FALSE
  ELSE IF repetitive /\ DuplicatesRecent(msg, accepted) THEN FALSE
  ELSE TRUE

(***************************************************************************)
(* C24, as stated: for every message the decision of filter follows the    *)
(* precedence excluded role, system or (with preserve_important) important *)
(* keyword, short, greeting or farewell, non-actionable, duplicate of the  *)
(* last 3 accepted, keep - every drop rule applied under every             *)
(* configuration - and the output keeps the input's relative order.        *)
(***************************************************************************)
C24_DecisionFollowsPrecedence ==
  Filtered
    => /\ IsSubsequence(FilterOutput, FilterInput)
       /\ \A i \in 1..Len(FilterInput) :
            Accepted(FilterInput[i])
              <=> Precedence(FilterInput[i], AcceptedBefore(i),
                             call.exclude_roles,
                             call.filter_config.preserve_important,
                             call.filter_config.min_message_length,
                             TRUE, TRUE, TRUE, TRUE)

(***************************************************************************)
(* C24: for every message the decision of filter follows exactly this      *)
(* precedence: drop if the role is in exclude_roles; else keep if it is a  *)
(* system message or (with preserve_important) contains an important       *)
(* keyword; else, each of these rules applying only when the configuration *)
(* enables it, drop if shorter than min_length; else drop if it contains a *)
(* greeting or farewell keyword; else drop if it equals a non-actionable   *)
(* phrase; else drop if it duplicates one of the last 3 accepted messages; *)
(* else keep - and the output preserves the input's relative order.        *)
(***************************************************************************)
C24_DecisionFollowsEnabledRules ==
  Filtered
    => /\ IsSubsequence(FilterOutput, FilterInput)
       /\ \A i \in 1..Len(FilterInput) :
            Accepted(FilterInput[i])
              <=> Precedence(FilterInput[i], AcceptedBefore(i),
                             call.exclude_roles,
                             call.filter_config.preserve_important,
                             call.filter_config.min_message_length,
                             call.filter_config.filter_short_messages,
                             call.filter_config.filter_greetings,
                             call.filter_config.filter_non_actionable,
                             call.filter_config.filter_repetitive)

C24_Witness ==
  /\ Filtered
  /\ call.filter_config = DefaultFilterConfig
  /\ call.exclude_roles = {"ai"}
  /\ Len(FilterInput) = 7
  /\ FilterInput[3].type = "ai" /\ ~Accepted(FilterInput[3])
  /\ DuplicatesRecent(FilterInput[7], AcceptedBefore(7))
  /\ [i \in 1..Len(FilterOutput) |-> FilterOutput[i].id] = <<1, 4, 5>>

(***************************************************************************)
(* C25, as stated: with the default configuration a message without an     *)
(* important keyword and of at least min_length characters whose content,  *)
(* compared case- and whitespace-insensitively, equals that of one of the  *)
(* last 3 messages accepted so far is dropped.                             *)
(***************************************************************************)
C25_DuplicateOfAcceptedDropped ==
  (Filtered /\ call.filter_config = DefaultFilterConfig)
    => \A i \in 1..Len(FilterInput) :
         (/\ ~HasImportantKeyword(FilterInput[i])
          /\ Len(MessageContent(FilterInput[i])) >= 10
          /\ DuplicatesRecent(FilterInput[i], AcceptedBefore(i)))
           => ~Accepted(FilterInput[i])

(***************************************************************************)
(* C25: with the default filter configuration, a non-system, non-important *)
(* message of at least min_length characters whose content (compared case- *)
(* and whitespace-insensitively) equals the content of any of the last 3   *)
(* messages already accepted by this pass is dropped; the window is the    *)
(* last 3 accepted messages, not the last 3 input messages: a message that *)
(* no other rule drops and that repeats only an older accepted message is  *)
(* kept.                                                                   *)
(***************************************************************************)
C25_DuplicateOfLastThreeAcceptedDropped ==
  (Filtered /\ call.filter_config = DefaultFilterConfig)
    => \A i \in 1..Len(FilterInput) :
         (/\ ~IsSystem(FilterInput[i])
          /\ ~HasImportantKeyword(FilterInput[i])
          /\ Len(MessageContent(FilterInput[i])) >= 10)
           => /\ DuplicatesRecent(FilterInput[i], AcceptedBefore(i))
                   => ~Accepted(FilterInput[i])
              /\ (/\ FilterInput[i].type \notin call.exclude_roles
                  /\ ~HasGreetingKeyword(FilterInput[i])
                  /\ ~IsNonActionable(FilterInput[i])
                  /\ ~DuplicatesRecent(FilterInput[i], AcceptedBefore(i)))
                   => Accepted(FilterInput[i])

\* The repeated message comes after three dropped messages and is dropped.
C25_Witness ==
  /\ Filtered
  /\ call.filter_config = DefaultFilterConfig
  /\ call.exclude_roles = {}
  /\ Len(FilterInput) = 5
  /\ \A i \in 2..4 : ~Accepted(FilterInput[i])
  /\ FilterInput[5].content # FilterInput[1].content
  /\ MessageContent(FilterInput[5]) = MessageContent(FilterInput[1])
  /\ [i \in 1..Len(FilterOutput) |-> FilterOutput[i].id] = <<1>>

HasAssistantMessage(messages) ==
  \E i \in 1..Len(messages) : messages[i].type = "ai"

\* The content of the assistant message that no assistant message follows.
MostRecentAssistantContent(messages) ==
  LET last == CHOOSE i \in 1..Len(messages) :
                /\ messages[i].type = "ai"
                /\ \A j \in (i + 1)..Len(messages) : messages[j].type # "ai"
  IN  messages[last].content

(***************************************************************************)
(* C26: when user_id is empty, FETCH_HISTORY returns the state unchanged   *)
(* (no history or metadata update), the remaining stages still run, the    *)
(* turn reaches a terminal state, and nothing is written to the store.     *)
(***************************************************************************)
C26_EmptyUserSkipsHistory ==
  /\ [][(pc = "fetch_history" /\ state.user_id = "")
          => (state' = state /\ store' = store)]_vars
  /\ [][(pc \in Nodes /\ state.user_id = "") => store' = store]_vars
  /\ []((pc = "DONE" /\ state.user_id = "") => executed = StageOrder)
  /\ []((pc = "ESCALATED" /\ state.user_id = "")
          => executed = SubSeq(StageOrder, 1, 4))
  /\ ((pc = "fetch_history" /\ state.user_id = "") ~> (pc \in Terminal))

C26_Witness ==
  /\ pc = "DONE"
  /\ state.user_id = ""
  /\ CurrentQuery # ""
  /\ executed = StageOrder
  /\ state.user_history = << >>
  /\ "history_loaded" \notin DOMAIN state.metadata
  /\ store["u1"].exists
  /\ ~store[""].exists

(***************************************************************************)
(* C27: when the current query is missing from metadata or empty,          *)
(* GENERATE_RESPONSE returns the state unchanged: no assistant message is  *)
(* appended, requires_hitl keeps its value, the turn proceeds to DONE, and *)
(* no history entry is persisted.                                          *)
(***************************************************************************)
C27_NoQueryNoResponse ==
  /\ [][(pc = "generate_response" /\ CurrentQuery = "")
          => state' = state]_vars
  /\ [][(pc \in {"generate_response", "check_hitl", "save_interaction",
                 "trim_state"} /\ CurrentQuery = "")
          => /\ ~HasAssistantMessage(state'.messages)
             /\ state'.requires_hitl = state.requires_hitl
             /\ state'.user_history = state.user_history
             /\ store' = store
             /\ pc' # "ESCALATED"]_vars
  /\ ((pc = "generate_response" /\ CurrentQuery = "") ~> (pc = "DONE"))

C27_Witness ==
  /\ pc = "DONE"
  /\ state.user_id = "u1"
  /\ "current_query" \in DOMAIN state.metadata
  /\ CurrentQuery = ""
  /\ executed = StageOrder
  /\ ~state.requires_hitl
  /\ "response_category" \notin DOMAIN state.metadata
  /\ ~store["u1"].exists

(***************************************************************************)
(* C28: when the final message log of a completed turn holds no assistant  *)
(* message, process_message returns the fixed apology as the response, and *)
(* in every other case the content of the most recent assistant message;   *)
(* the response it returns is never empty.                                 *)
(***************************************************************************)
C28_ApologyWhenNoReply ==
  [][(pc \in Terminal)
       => /\ result'.returned
          /\ result'.response # ""
          /\ result'.response =
               (IF HasAssistantMessage(state.messages)
                  THEN MostRecentAssistantContent(state.messages)
                  ELSE ApologyResponse)]_vars

\* A turn with an empty message has returned the apology, after a turn of
\* the same user that returned a reply.
C28_Witness ==
  /\ result.returned
  /\ result.response = ApologyResponse
  /\ Get(result.metadata, "current_query", "none") = ""
  /\ result.session_id = "u1_t1"
  /\ store["u1"].exists

(***************************************************************************)
(* C29, as stated: requires_hitl is set exactly once per turn: in every    *)
(* invocation generate_response writes the flag, and no other stage        *)
(* changes it.                                                             *)
(***************************************************************************)
C29_FlagWrittenOnceEveryTurn ==
  /\ [][(pc \in Nodes)
          => (("requires_hitl" \in StageWrites(pc, state))
                <=> pc = "generate_response")]_vars
  /\ [][(pc \in Nodes /\ pc # "generate_response")
          => state'.requires_hitl = state.requires_hitl]_vars

(***************************************************************************)
(* C29: requires_hitl is set at most once per turn, by the stage that      *)
(* generates the response: generate_response runs once in every turn and   *)
(* writes the flag when there is a current query (and writes nothing when  *)
(* there is none), what it writes is the escalation decision on the query, *)
(* and no other stage (fetch_history, process_query, check_hitl,           *)
(* save_interaction, trim_state) writes or changes it.                     *)
(***************************************************************************)
C29_FlagWrittenAtMostOnce ==
  /\ [][(pc \in Nodes)
          => /\ ("requires_hitl" \in StageWrites(pc, state))
                  <=> (pc = "generate_response" /\ CurrentQuery # "")
             /\ \A key \in DOMAIN state \ StageWrites(pc, state) :
                  state'[key] = state[key]]_vars
  /\ [][(pc \in Nodes /\ pc # "generate_response")
          => state'.requires_hitl = state.requires_hitl]_vars
  /\ [][(pc = "generate_response" /\ CurrentQuery # "")
          => state'.requires_hitl = EscalationCondition(CurrentQuery)]_vars
  /\ [](pc \in Terminal
          => Cardinality({i \in 1..Len(executed) :
                            executed[i] = "generate_response"}) = 1)

C29_Witness ==
  /\ pc = "DONE"
  /\ executed = StageOrder
  /\ CurrentQuery # ""
  /\ ~state.requires_hitl
  /\ clock = 2
  /\ \E i \in DOMAIN hitl_queue : hitl_queue[i].status = "pending"

\* The entries of the histories in the store.
StoredEntries ==
  UNION {Range(StoredHistory(store, u)) : u \in UserIds}

(***************************************************************************)
(* C30: every history entry in the store has a non-empty query, resolution *)
(* and timestamp; an append of an entry with an empty query or resolution  *)
(* is rejected.                                                            *)
(***************************************************************************)
C30_EntriesNonEmpty ==
  /\ \A entry \in StoredEntries :
       /\ entry.query # ""
       /\ entry.resolution # ""
       /\ "timestamp" \in DOMAIN entry
  /\ (call.op = "append" /\ (call.entry.query = "" \/ call.entry.resolution = ""))
       => ~call.ok

(***************************************************************************)
(* C31: a session state with malformed fields (here: an empty identifier)  *)
(* is rejected with a validation error before any stage of the pipeline    *)
(* runs, in process_message as in start_session: no node ever runs on a    *)
(* state that validate_state refuses.                                      *)
(***************************************************************************)
C31_InvalidStateNeverEntersPipeline ==
  (pc \in Nodes) => validate_state(state)

\* What the operations of the callers look like once they have returned.
Returned(c) == ops[c].step = "returned"

IsAppend(c) == "entry" \in DOMAIN ops[c]

IsClear(c) == "cleared" \in DOMAIN ops[c]

InitialHistory(user_id) == StoredHistory(call.initial, user_id)

\* The stored history of the user of c after c's operation, had it run
\* alone on the initial store with the same outcome of its file operations.
AloneHistory(c) ==
  LET before == InitialHistory(ops[c].user_id)
      entry  == NewEntry(ops[c].entry.query, ops[c].entry.resolution, 1,
                         ops[c].entry.metadata)
  IN  IF IsAppend(c)
        THEN IF ~ops[c].ok THEN before
             ELSE IF ops[c].read_ok THEN Append(before, entry)
             ELSE <<entry>>
      ELSE IF IsClear(c) /\ ops[c].ok THEN << >>
      ELSE before

(***************************************************************************)
(* C32: operations on different users are independent: under every         *)
(* interleaving a step of a load, append, clear or turn for one user       *)
(* leaves the stored file of every other user unchanged (the files of      *)
(* different users have different paths), and when the two callers work on *)
(* different users the final stored history of each user is what its own   *)
(* operation would produce if run alone.                                   *)
(***************************************************************************)
C32_UsersIndependent ==
  /\ [][\A u \in UserIds :
          store'[u] # store[u]
            => \E c \in Callers : ops'[c] # ops[c] /\ ops[c].user_id = u]_vars
  /\ [](\A u \in UserIds, v \in UserIds :
          u # v => get_user_file_path(u) # get_user_file_path(v))
  /\ [](\A c \in Callers, d \in Callers :
          (Returned(c) /\ Returned(d) /\ ops[c].user_id # ops[d].user_id)
            => StoredHistory(store, ops[c].user_id) = AloneHistory(c))

C32_Witness ==
  \E c \in Callers, d \in Callers :
    /\ Returned(c) /\ Returned(d)
    /\ ops[c].user_id = "u1" /\ ops[d].user_id = "u2"
    /\ IsClear(c) /\ ops[c].ok
    /\ IsAppend(d) /\ ops[d].ok /\ ops[d].read_ok
    /\ call.initial["u1"].exists /\ call.initial["u2"].exists
    /\ ~store["u1"].exists
    /\ Len(StoredHistory(store, "u2")) = 2

(***************************************************************************)
(* C33: clear is atomic per user with respect to append: under every       *)
(* interleaving of a clear that reports success and an append for the same *)
(* user, the stored history is in the end empty or holds only the newly    *)
(* appended entry; no entry from before the clear is in it.                *)
(***************************************************************************)
C33_ClearAtomicWithAppend ==
  \A c \in Callers, d \in Callers :
    ( /\ Returned(c) /\ Returned(d)
      /\ IsClear(c) /\ ops[c].ok
      /\ IsAppend(d)
      /\ ops[c].user_id = ops[d].user_id )
    => StoredHistory(store, ops[c].user_id)
         \in {<< >>, <<NewEntry(ops[d].entry.query, ops[d].entry.resolution,
                                1, ops[d].entry.metadata)>>}

\* The call of analyze_query, and of get_response, has returned.
Analyzed == "query" \in DOMAIN call /\ "analysis" \in DOMAIN call

Answered == "query" \in DOMAIN call /\ "answer" \in DOMAIN call

\* The keyword-hit score of every category, in the order of the dictionary.
CategoryScores(query) ==
  [i \in 1..Len(knowledge_base) |->
     KeywordScore(Lower(query), knowledge_base[i].keywords)]

(***************************************************************************)
(* C34: for every query the classifier picks the category with the maximum *)
(* keyword-hit score, the first such category on ties and 'general' with   *)
(* confidence 0 when no keyword hits, and reports the confidence           *)
(* min(score / 3, 1.0), which lies in [0, 1].                              *)
(***************************************************************************)
C34_ClassifierPicksFirstMaximum ==
  Analyzed =>
    \E scores \in {CategoryScores(call.query)} :
      LET max   == CHOOSE m \in {scores[i] : i \in DOMAIN scores} :
                     \A i \in DOMAIN scores : scores[i] <= m
          first == CHOOSE i \in DOMAIN scores :
                     scores[i] = max /\ \A j \in 1..(i - 1) : scores[j] < max
      IN  /\ call.analysis.confidence \in 0..ConfidenceFull
          /\ IF max = 0
               THEN call.analysis = [category |-> "general", confidence |-> 0]
               ELSE /\ call.analysis.category = knowledge_base[first].name
                    /\ call.analysis.confidence =
                         IF 100 * max < ConfidenceFull
                           THEN 100 * max ELSE ConfidenceFull

\* Two categories score one hit each and the first of them is reported.
C34_Witness ==
  /\ Analyzed
  /\ call.query = "billing error"
  /\ \E scores \in {CategoryScores(call.query)} :
       Cardinality({i \in DOMAIN scores : scores[i] = 1}) = 2
  /\ call.analysis = [category |-> "billing", confidence |-> 100]

(***************************************************************************)
(* C35: on the authentication path the scripted answer returned is that of *)
(* the catalog question with the highest word-set overlap ratio among      *)
(* those whose ratio exceeds 0.5, and the generic troubleshooting answer   *)
(* is returned exactly when no catalog question's ratio exceeds 0.5.       *)
(***************************************************************************)
C35_BestOverlapRatioAnswers ==
  (Answered /\ is_authentication_query(call.query)
            /\ ~is_complex_query(call.query)) =>
    \E query_words \in {SplitWords(Strip(Lower(call.query)))} :
      LET Words(i)   == SplitWords(mock_responses[i].question)
          Overlap(i) == Cardinality(query_words \cap Words(i))
          Shorter(i) == IF Cardinality(query_words) < Cardinality(Words(i))
                          THEN Cardinality(query_words)
                          ELSE Cardinality(Words(i))
          above == {i \in 1..Len(mock_responses) :
                      Shorter(i) > 0 /\ 2 * Overlap(i) > Shorter(i)}
          best  == {i \in above :
                      \A j \in above :
                        Overlap(i) * Shorter(j) >= Overlap(j) * Shorter(i)}
      IN  /\ (call.answer = DefaultAuthResponse) <=> (above = {})
          /\ above # {} =>
               \E i \in best : call.answer = mock_responses[i].answer

(***************************************************************************)
(* C36: append never loses previously stored entries, also on a failed     *)
(* read: when the load inside append_to_history fails or returns malformed *)
(* data, the entries already stored for that user are still in the store   *)
(* after the append completes.                                             *)
(***************************************************************************)
C36_AppendKeepsStoredEntries ==
  [][ (call'.op = "append") =>
        \E before \in {StoredHistory(store, call'.user_id)},
           after \in {StoredHistory(store', call'.user_id)} :
          \A i \in 1..Len(before) :
            \E j \in 1..Len(after) : after[j] = before[i] ]_vars

\* The (query, resolution) pairs of a history, in its order.
QueryResolutionPairs(history) ==
  [i \in 1..Len(history) |-> <<history[i].query, history[i].resolution>>]

(***************************************************************************)
(* C37: at the DONE state of a turn with non-empty user_id and query, the  *)
(* history of the session state and the stored history of that user have   *)
(* the same length and the same sequence of (query, resolution) pairs,     *)
(* also when the store append reported failure.                            *)
(***************************************************************************)
C37_StateHistoryAgreesWithStore ==
  (pc = "DONE" /\ state.user_id # "" /\ CurrentQuery # "") =>
    QueryResolutionPairs(state.user_history) =
      QueryResolutionPairs(StoredHistory(store, state.user_id))

\* The status of the item of the queue that was received at a given time,
\* and "none" when the queue holds no such item.
ItemStatus(queue, timestamp) ==
  IF \E i \in DOMAIN queue : queue[i].timestamp = timestamp
    THEN queue[CHOOSE i \in DOMAIN queue : queue[i].timestamp = timestamp].status
    ELSE "none"

Deferred == "info" \in DOMAIN call

(***************************************************************************)
(* C38: in the review queue every item starts as pending and its status    *)
(* changes at most once, only from pending to approved or from pending to  *)
(* rejected; a defer action leaves the item pending, and an approved or    *)
(* rejected item never changes status or triggers another resolution call. *)
(***************************************************************************)
C38_ItemDecidedAtMostOnce ==
  [][ /\ \A t \in 1..clock' :
           \E old \in {ItemStatus(hitl_queue, t)},
              new \in {ItemStatus(hitl_queue', t)} :
             /\ (old = "none" /\ new # "none") => new = "pending"
             /\ (old # "none" /\ new # "none" /\ new # old)
                  => old = "pending" /\ new \in {"approved", "rejected"}
      /\ ("info" \in DOMAIN call' /\ call' # call)
           => /\ hitl_queue' = hitl_queue
              /\ hitl_queue[call'.item].status = "pending"
      /\ (pc' = "approve_hitl" /\ pc # pc' /\ call'.item > 0)
           => hitl_queue[call'.item].status = "pending" ]_vars

\* One item was approved and stays so while a later item was deferred and is
\* still pending.
C38_Witness ==
  /\ pc = "idle"
  /\ Deferred
  /\ Len(hitl_queue) = 2
  /\ hitl_queue[1].status = "approved"
  /\ hitl_queue[2].status = "pending"
  /\ call.item = 2

\* filter_messages has been applied to its own output.
FilteredTwice ==
  call.returned /\ "filter_config" \in DOMAIN call /\ "again" \in DOMAIN call

(***************************************************************************)
(* C39: filter is idempotent.  For every message log, exclude_roles and    *)
(* filter configuration, applying filter to the output of filter returns   *)
(* the same message log, with messages_filtered = 0 on the second pass.    *)
(***************************************************************************)
C39_FilterIdempotent ==
  FilteredTwice =>
    /\ call.again.messages = call.result.messages
    /\ Get(call.again.metadata, "messages_filtered", -1) = 0

\* The first pass dropped a message and kept others, the second none.
C39_Witness ==
  /\ FilteredTwice
  /\ Get(call.result.metadata, "messages_filtered", 0) > 0
  /\ Len(call.result.messages) >= 2
  /\ Len(call.again.messages) = Len(call.result.messages)
  /\ Get(call.again.metadata, "total_messages_before_filter", 0)
       = Len(call.result.messages)

(***************************************************************************)
(* C40: get_user_history with limit L returns at most L entries for every  *)
(* L >= 0 and every stored history, namely the L most recent entries in    *)
(* stored order, and the whole history when it has at most L entries.      *)
(* Stated for the calls whose read of the file succeeds.                   *)
(***************************************************************************)
C40_RecentHistoryWithinLimit ==
  (call.op = "recent" /\ call.read_ok) =>
    \E stored \in {StoredHistory(store, call.user_id)} :
      /\ Len(call.history) <= call.limit
      /\ call.history =
           IF Len(stored) <= call.limit THEN stored
           ELSE SubSeq(stored, Len(stored) - call.limit + 1, Len(stored))


=============================================================================
